---- MODULE Spec2Model ----
(***************************************************************************)
(* A model of nmostesting/suites/IS1201Test.py: the local mirror of the    *)
(* device model (nc_object_factory, query_device_model), the full-tree     *)
(* walk (check_device_model, check_block), the structural diff             *)
(* (validate_descriptor) and the per-key model validation                  *)
(* (validate_model_definitions).                                           *)
(*                                                                         *)
(* Python dictionaries are TLA+ functions, lists are sequences, None is a  *)
(* record of kind "None" (so that a node and None compare), and a raised   *)
(* exception is a value carried out of the operator that raised it.        *)
(***************************************************************************)
EXTENDS Integers, Sequences, FiniteSets, TLC

\* The longest member list of a block, beside the Class Manager of the root.
MaxMembers == 2

\* F applied to the value of v, which is computed once (a local variable).
With(v, F(_)) == CHOOSE r \in {F(x) : x \in {v}} : TRUE

\* ------------------------------------------------------------------------
\* Class ids, oids
\* ------------------------------------------------------------------------
ROOT_BLOCK_OID == 1

NCOBJECT == <<1>>
NCBLOCK == <<1, 1>>
NCWORKER == <<1, 2>>
NCMANAGER == <<1, 3>>
NCDEVICEMANAGER == <<1, 3, 1>>
NCCLASSMANAGER == <<1, 3, 2>>

\* IS1201Test.py:597  len(class_id) > 1 and class_id[0] == 1 and class_id[1] == 1
IsBlockClassId(class_id) ==
    Len(class_id) > 1 /\ class_id[1] = 1 /\ class_id[2] = 1

\* IS1201Test.py:612  len(class_id) > 2 and class_id[0] == 1 and class_id[1] == 3
\*                    and class_id[2] == 2
IsClassManagerClassId(class_id) ==
    Len(class_id) > 2 /\ class_id[1] = 1 /\ class_id[2] = 3 /\ class_id[3] = 2

\* ".".join(map(str, classId))
RECURSIVE JoinDots(_)
JoinDots(s) ==
    IF Len(s) = 0 THEN ""
    ELSE IF Len(s) = 1 THEN ToString(s[1])
    ELSE ToString(s[1]) \o "." \o JoinDots(Tail(s))

\* IS1201Test.py:215  key_lambda: the dotted class id if there is one, else the name
key_lambda(classId, name) == IF Len(classId) > 0 THEN JoinDots(classId) ELSE name

\* {keys[i]: list[i] for i}: a later item replaces an earlier one that has
\* the same key.
DictOf(keys, list) ==
    [k \in {keys[i] : i \in 1..Len(list)} |->
        list[CHOOSE i \in 1..Len(list) :
                /\ keys[i] = k
                /\ \A j \in 1..Len(list) : keys[j] = k => j <= i]]

EmptyDict == [k \in {} |-> 0]

\* ------------------------------------------------------------------------
\* Nodes of the mirror: NcObject, NcBlock, NcClassManager, and None
\* ------------------------------------------------------------------------
NoneNode ==
    [kind |-> "None", class_id |-> <<>>, oid |-> 0, role |-> "",
     member_descriptors |-> <<>>, child_objects |-> <<>>,
     class_descriptors |-> EmptyDict, datatype_descriptors |-> EmptyDict,
     runtime_constraints |-> "None"]

NcObject(class_id, oid, role, runtime_constraints) ==
    [kind |-> "NcObject", class_id |-> class_id, oid |-> oid, role |-> role,
     member_descriptors |-> <<>>, child_objects |-> <<>>,
     class_descriptors |-> EmptyDict, datatype_descriptors |-> EmptyDict,
     runtime_constraints |-> runtime_constraints]

NcBlock(class_id, oid, role, descriptors, child_objects, runtime_constraints) ==
    [kind |-> "NcBlock", class_id |-> class_id, oid |-> oid, role |-> role,
     member_descriptors |-> descriptors, child_objects |-> child_objects,
     class_descriptors |-> EmptyDict, datatype_descriptors |-> EmptyDict,
     runtime_constraints |-> runtime_constraints]

NcClassManager(class_id, oid, role, class_descriptors, datatype_descriptors, runtime_constraints) ==
    [kind |-> "NcClassManager", class_id |-> class_id, oid |-> oid, role |-> role,
     member_descriptors |-> <<>>, child_objects |-> <<>>,
     class_descriptors |-> class_descriptors,
     datatype_descriptors |-> datatype_descriptors,
     runtime_constraints |-> runtime_constraints]

\* ------------------------------------------------------------------------
\* The device under test: what it answers to Get
\* ------------------------------------------------------------------------
\* An answer: ok = FALSE is an error response (is12_utils.get_property raises),
\* null = TRUE is the value null, and value is the list otherwise.
Answer(list) == [ok |-> TRUE, null |-> FALSE, value |-> list]
ErrorAnswer == [ok |-> FALSE, null |-> FALSE, value |-> <<>>]
NullAnswer == [ok |-> TRUE, null |-> TRUE, value |-> <<>>]

\* IS1201Test.py:423-433  get_property: the value, or None with the error
\* recorded in device_model_metadata.
get_property(answer) ==
    IF answer.ok
    THEN [none |-> answer.null, value |-> answer.value, error |-> FALSE]
    ELSE [none |-> TRUE, value |-> <<>>, error |-> TRUE]

\* Python's "not x" for None and for lists.
Not(p) == p.none \/ Len(p.value) = 0

\* What the device answers for the members of a block, the runtime
\* constraints of an object and the two catalogs of the Class Manager.
MembersAnswer(d, oid) ==
    IF oid \in DOMAIN d.members THEN d.members[oid] ELSE ErrorAnswer

RuntimeConstraintsAnswer(d, oid) ==
    IF oid = d.rc_fail THEN ErrorAnswer ELSE NullAnswer

\* ------------------------------------------------------------------------
\* nc_object_factory
\* ------------------------------------------------------------------------
\* IS1201Test.py:207-218
get_class_manager_descriptors(answer) ==
    With(get_property(answer), LAMBDA response :
        IF Not(response)
        THEN [none |-> TRUE, value |-> EmptyDict, error |-> response.error]
        ELSE [none |-> FALSE, error |-> response.error,
              value |-> DictOf([i \in 1..Len(response.value) |->
                                   key_lambda(response.value[i].classId,
                                              response.value[i].name)],
                               response.value)])

\* "if member_descriptors is None" in the place of "if not member_descriptors".
MembersUnavailableNoneOnly(member_descriptors) == member_descriptors.none

\* IS1201Test.py:599  if not member_descriptors
MembersUnavailable(member_descriptors) == Not(member_descriptors)

\* IS1201Test.py:607-608  if child_object: nc_block.add_child_object(child_object)
AddChild(child_objects, child_object) ==
    IF child_object.kind # "None"
    THEN Append(child_objects, child_object)
    ELSE child_objects

\* One entry of the log of factory calls: who was built for which block,
\* and whether a node came back.
Call(caller, class_id, oid, role, node) ==
    [caller |-> caller, class_id |-> class_id, oid |-> oid, role |-> role,
     returned |-> node.kind # "None"]

\* IS1201Test.py:589-626.  The result carries the node (or None), whether
\* device_model_metadata["error"] was set on the way, and the calls made,
\* in call order.
RECURSIVE nc_object_factory(_, _, _, _, _)
RECURSIVE BuildMembers(_, _, _, _, _)

\* The loop of lines 605-608 from member_descriptors[i] on; acc holds the
\* child objects added, the error flag and the calls so far.
BuildMembers(d, oid, member_descriptors, i, acc) ==
    IF i > Len(member_descriptors)
    THEN acc
    ELSE With(member_descriptors[i], LAMBDA m :
         With(nc_object_factory(d, oid, m.classId, m.oid, m.role), LAMBDA child :
         With([child_objects |-> AddChild(acc.child_objects, child.node),
               error |-> acc.error \/ child.error,
               calls |-> acc.calls \o child.calls], LAMBDA next :
             BuildMembers(d, oid, member_descriptors, i + 1, next))))

\* Lines 598-609: a block.
BuildBlock(d, caller, class_id, oid, role, rc, runtime_constraints) ==
    With(get_property(MembersAnswer(d, oid)), LAMBDA member_descriptors :
        IF MembersUnavailable(member_descriptors)
        THEN [node |-> NoneNode,
              error |-> rc.error \/ member_descriptors.error,
              calls |-> <<Call(caller, class_id, oid, role, NoneNode)>>]
        ELSE With(BuildMembers(d, oid, member_descriptors.value, 1,
                               [child_objects |-> <<>>, error |-> FALSE,
                                calls |-> <<>>]), LAMBDA built :
             With(NcBlock(class_id, oid, role, member_descriptors.value,
                          built.child_objects, runtime_constraints), LAMBDA nc_block :
                 [node |-> nc_block,
                  error |-> rc.error \/ built.error,
                  calls |-> <<Call(caller, class_id, oid, role, nc_block)>>
                            \o built.calls])))

\* Lines 612-625: a Class Manager.
BuildClassManager(d, caller, class_id, oid, role, rc, runtime_constraints) ==
    With(get_class_manager_descriptors(d.control_classes), LAMBDA class_descriptors :
    With(get_class_manager_descriptors(d.datatypes), LAMBDA datatype_descriptors :
    With(IF \/ class_descriptors.none
            \/ DOMAIN class_descriptors.value = {}
            \/ datatype_descriptors.none
            \/ DOMAIN datatype_descriptors.value = {}
         THEN NoneNode
         ELSE NcClassManager(class_id, oid, role, class_descriptors.value,
                             datatype_descriptors.value, runtime_constraints),
         LAMBDA node :
             [node |-> node,
              error |-> rc.error \/ class_descriptors.error
                                 \/ datatype_descriptors.error,
              calls |-> <<Call(caller, class_id, oid, role, node)>>])))

nc_object_factory(d, caller, class_id, oid, role) ==
    With(get_property(RuntimeConstraintsAnswer(d, oid)), LAMBDA rc :
    With(IF rc.none THEN "None" ELSE "constraints", LAMBDA runtime_constraints :
        IF IsBlockClassId(class_id)
        THEN BuildBlock(d, caller, class_id, oid, role, rc, runtime_constraints)
        ELSE IF IsClassManagerClassId(class_id)
        THEN BuildClassManager(d, caller, class_id, oid, role, rc, runtime_constraints)
        ELSE With(NcObject(class_id, oid, role, runtime_constraints), LAMBDA node :
                 [node |-> node, error |-> rc.error,
                  calls |-> <<Call(caller, class_id, oid, role, node)>>])))

\* ------------------------------------------------------------------------
\* Helpers of IS12Utils used by the walk
\* ------------------------------------------------------------------------
\* is_manager: the class id is in the manager family 1.3
is_manager(class_id) ==
    Len(class_id) > 1 /\ class_id[1] = 1 /\ class_id[2] = 3

\* is_non_standard_class: the class id carries an authority key (a segment
\* that is negative or zero)
is_non_standard_class(class_id) ==
    \E i \in 1..Len(class_id) : class_id[i] < 1

\* The segments of a class id before its authority key.
RECURSIVE TakeWhilePositive(_)
TakeWhilePositive(class_id) ==
    IF Len(class_id) = 0 \/ class_id[1] <= 0
    THEN <<>>
    ELSE <<class_id[1]>> \o TakeWhilePositive(Tail(class_id))

\* get_base_class_id: the key of the standard class a class id extends
get_base_class_id(class_id) == JoinDots(TakeWhilePositive(class_id))

\* NcBlock.find_members_by_class_id(class_id, include_derived, recurse)
ClassIdMatches(query, class_id, include_derived) ==
    IF include_derived
    THEN Len(class_id) >= Len(query) /\ SubSeq(class_id, 1, Len(query)) = query
    ELSE class_id = query

RECURSIVE find_members_by_class_id(_, _, _, _)
RECURSIVE FindInChildren(_, _, _, _, _)
FindInChildren(child_objects, i, class_id, include_derived, recurse) ==
    IF i > Len(child_objects)
    THEN <<>>
    ELSE LET child == child_objects[i]
             here == IF ClassIdMatches(class_id, child.class_id, include_derived)
                     THEN <<child>> ELSE <<>>
             below == IF recurse /\ child.kind = "NcBlock"
                      THEN find_members_by_class_id(child, class_id,
                                                    include_derived, recurse)
                      ELSE <<>>
         IN  here \o below
             \o FindInChildren(child_objects, i + 1, class_id, include_derived, recurse)

find_members_by_class_id(block, class_id, include_derived, recurse) ==
    FindInChildren(block.child_objects, 1, class_id, include_derived, recurse)

\* The keys of the reference class descriptors (MS-05-02 models/classes).
reference_class_keys == {"1", "1.1", "1.2", "1.3", "1.3.1", "1.3.2"}

\* ------------------------------------------------------------------------
\* The walk: check_block and the checks it makes on each member descriptor
\* ------------------------------------------------------------------------
\* The test suite object after __init__ and set_up_tests (lines 38-65).
\* Beside the fields of the source it records what the walk raised ("" when
\* nothing), how far the walk got, and the member descriptors the walk
\* checked, in order.
SetUp ==
    [device_model |-> NoneNode,
     unique_roles_error |-> FALSE,
     unique_oids_error |-> FALSE,
     managers_are_singletons_error |-> FALSE,
     managers_members_root_block_error |-> FALSE,
     device_model_metadata |-> [checked |-> FALSE, error |-> FALSE],
     organization_metadata |-> [checked |-> FALSE, error |-> FALSE],
     touchpoints_metadata |-> [checked |-> FALSE, error |-> FALSE],
     oid_cache |-> <<>>,
     checked_members |-> <<>>,
     walk |-> "not started",
     raised |-> ""]

InSeq(x, seq) == \E i \in 1..Len(seq) : seq[i] = x

\* check_unique_roles that never adds the role to the cache.
check_unique_roles_never_added(st, role, role_cache) ==
    IF InSeq(role, role_cache)
    THEN [st |-> [st EXCEPT !.unique_roles_error = TRUE], role_cache |-> role_cache]
    ELSE [st |-> st, role_cache |-> role_cache]

\* IS1201Test.py:465-470
check_unique_roles(st, role, role_cache) ==
    IF InSeq(role, role_cache)
    THEN [st |-> [st EXCEPT !.unique_roles_error = TRUE], role_cache |-> role_cache]
    ELSE [st |-> st, role_cache |-> Append(role_cache, role)]

\* IS1201Test.py:472-477
check_unique_oid(st, oid) ==
    IF InSeq(oid, st.oid_cache)
    THEN [st EXCEPT !.unique_oids_error = TRUE]
    ELSE [st EXCEPT !.oid_cache = Append(st.oid_cache, oid)]

\* IS1201Test.py:479-492.  class_descriptors[base_id] raises KeyError when
\* the Class Manager does not advertise the base class.
check_manager(st, class_id, owner, class_descriptors, manager_cache) ==
    With(get_base_class_id(class_id), LAMBDA base_id :
        IF base_id \notin DOMAIN class_descriptors
        THEN [st |-> [st EXCEPT !.raised = "KeyError"], manager_cache |-> manager_cache]
        ELSE With(class_descriptors[base_id].name, LAMBDA base_class_name :
             IF is_manager(class_id)
             THEN [st |-> [st EXCEPT
                            !.managers_members_root_block_error =
                                @ \/ owner # ROOT_BLOCK_OID,
                            !.managers_are_singletons_error =
                                @ \/ InSeq(base_class_name, manager_cache)],
                   manager_cache |-> IF InSeq(base_class_name, manager_cache)
                                     THEN manager_cache
                                     ELSE Append(manager_cache, base_class_name)]
             ELSE [st |-> st, manager_cache |-> manager_cache]))

\* IS1201Test.py:193-205  _validate_schema, for a payload that conforms or not
\* to a schema that exists or not: what it raises, "" when nothing.  "FAIL"
\* stands for NMOSTestException(test.FAIL(...)).
validate_schema(schema_exists, conforms) ==
    IF ~schema_exists \/ ~conforms THEN "FAIL" ELSE ""

\* The schemas generated from the datatypes the Class Manager advertises
\* (generate_device_model_datatype_schemas, lines 559-571): one per name.
HasSchema(datatype_descriptors, name) == name \in DOMAIN datatype_descriptors

\* IS1201Test.py:494-513.  schema["title"] of a schema that does not exist
\* raises TypeError before _validate_schema is entered; a schema failure ends
\* the loop over the touchpoints and is recorded.
RECURSIVE TouchpointsLoop(_, _, _, _)
TouchpointsLoop(st, touchpoints, i, datatype_descriptors) ==
    IF i > Len(touchpoints)
    THEN st
    ELSE LET touchpoint == touchpoints[i]
             name == IF touchpoint.contextNamespace = "x-nmos"
                     THEN "NcTouchpointNmos"
                     ELSE "NcTouchpointNmosChannelMapping"
         IN  IF ~HasSchema(datatype_descriptors, name)
             THEN [st EXCEPT !.raised = "TypeError"]
             ELSE IF validate_schema(TRUE, touchpoint.conforms) # ""
             THEN [st EXCEPT !.touchpoints_metadata.error = TRUE]
             ELSE TouchpointsLoop(st, touchpoints, i + 1, datatype_descriptors)

check_touchpoints(st, d, oid, datatype_descriptors) ==
    With(get_property(d.touchpoints), LAMBDA touchpoints :
    With([st EXCEPT !.device_model_metadata.error = @ \/ touchpoints.error], LAMBDA st1 :
        IF touchpoints.none
        THEN st1
        ELSE TouchpointsLoop([st1 EXCEPT !.touchpoints_metadata.checked = TRUE],
                             touchpoints.value, 1, datatype_descriptors)))

\* IS1201Test.py:435-463.  Each property of the class is read; a value that
\* is None or empty is skipped, any other is validated against its type
\* (validate_property_type, lines 348-367), which raises when it does not
\* conform.
RECURSIVE check_object_properties(_, _, _, _, _)
check_object_properties(st, d, properties, i, oid) ==
    IF i > Len(properties)
    THEN st
    ELSE With(get_property(d.property_value), LAMBDA object_property :
         With([st EXCEPT !.device_model_metadata.error = @ \/ object_property.error],
              LAMBDA st1 :
             IF Not(object_property)
             THEN check_object_properties(st1, d, properties, i + 1, oid)
             ELSE IF \E k \in 1..Len(object_property.value) :
                        object_property.value[k] # properties[i].typeName
                  THEN [st1 EXCEPT !.raised = "FAIL"]
                  ELSE check_object_properties(st1, d, properties, i + 1, oid)))

\* IS1201Test.py:539-557: the class of the member is looked up in the
\* catalog of the Class Manager and in the reference catalog.
CheckClass(st, d, descriptor, class_descriptors) ==
    With(JoinDots(descriptor.classId), LAMBDA class_identifier :
    With(IF class_identifier # "" /\ class_identifier \in DOMAIN class_descriptors
         THEN check_object_properties(
                  st, d, class_descriptors[class_identifier].properties,
                  1, descriptor.oid)
         ELSE [st EXCEPT !.device_model_metadata.error = TRUE], LAMBDA props :
        IF props.raised # ""
        THEN props
        ELSE IF /\ class_identifier \notin reference_class_keys
                /\ ~is_non_standard_class(descriptor.classId)
        THEN [props EXCEPT !.organization_metadata.error = TRUE]
        ELSE props))

\* IS1201Test.py:526-557: the checks on one member descriptor, in order;
\* an exception ends them.
CheckMember(st, d, descriptor, class_descriptors, datatype_descriptors, caches) ==
    IF validate_schema(HasSchema(datatype_descriptors, "NcBlockMemberDescriptor"),
                       TRUE) # ""
    THEN [st |-> [st EXCEPT !.raised = "FAIL"], caches |-> caches]
    ELSE
    With(check_unique_roles(st, descriptor.role, caches.role_cache), LAMBDA roles :
    With(check_unique_oid(roles.st, descriptor.oid), LAMBDA oids :
    With([oids EXCEPT !.organization_metadata.checked =
                          @ \/ is_non_standard_class(descriptor.classId)], LAMBDA org :
    With(check_manager(org, descriptor.classId, descriptor.owner,
                       class_descriptors, caches.manager_cache), LAMBDA mgr :
        IF mgr.st.raised # ""
        THEN [st |-> mgr.st, caches |-> caches]
        ELSE
        With(check_touchpoints(mgr.st, d, descriptor.oid, datatype_descriptors),
             LAMBDA tch :
            IF tch.raised # ""
            THEN [st |-> tch, caches |-> caches]
            ELSE
            With(CheckClass(tch, d, descriptor, class_descriptors), LAMBDA last :
                IF last.raised # ""
                THEN [st |-> last, caches |-> caches]
                ELSE [st |-> [last EXCEPT !.checked_members = Append(@, descriptor)],
                      caches |-> [role_cache |-> roles.role_cache,
                                  manager_cache |-> mgr.manager_cache]]))))))

RECURSIVE check_block(_, _, _, _, _)
RECURSIVE CheckChildBlocks(_, _, _, _, _, _)
RECURSIVE CheckMembers(_, _, _, _, _, _, _)

\* IS1201Test.py:516-522: the child objects that are blocks are walked first.
CheckChildBlocks(st, d, child_objects, i, class_descriptors, datatype_descriptors) ==
    IF i > Len(child_objects) \/ st.raised # ""
    THEN st
    ELSE With(IF child_objects[i].kind = "NcBlock"
              THEN check_block(st, d, child_objects[i], class_descriptors,
                               datatype_descriptors)
              ELSE st, LAMBDA st1 :
             CheckChildBlocks(st1, d, child_objects, i + 1, class_descriptors,
                              datatype_descriptors))

\* IS1201Test.py:523-557: then every member descriptor of the block, with a
\* role cache and a manager cache of this block.
CheckMembers(st, d, member_descriptors, i, class_descriptors, datatype_descriptors, caches) ==
    IF i > Len(member_descriptors) \/ st.raised # ""
    THEN st
    ELSE With(CheckMember(st, d, member_descriptors[i], class_descriptors,
                          datatype_descriptors, caches), LAMBDA r :
             CheckMembers(r.st, d, member_descriptors, i + 1, class_descriptors,
                          datatype_descriptors, r.caches))

\* IS1201Test.py:515-557
check_block(st, d, block, class_descriptors, datatype_descriptors) ==
    With(CheckChildBlocks(st, d, block.child_objects, 1, class_descriptors,
                          datatype_descriptors), LAMBDA st1 :
        CheckMembers(st1, d, block.member_descriptors, 1, class_descriptors,
                     datatype_descriptors,
                     [role_cache |-> <<>>, manager_cache |-> <<>>]))

\* ------------------------------------------------------------------------
\* query_device_model, get_manager, check_device_model
\* ------------------------------------------------------------------------
\* query_device_model that builds the tree on every call.
query_device_model_always_rebuilt(s, d) ==
    With(nc_object_factory(d, 0, NCBLOCK, ROOT_BLOCK_OID, "root"), LAMBDA r :
        [self |-> [s EXCEPT !.device_model = r.node,
                            !.device_model_metadata.error = @ \/ r.error],
         raised |-> IF r.node.kind = "None" THEN "FAIL" ELSE "",
         calls |-> r.calls])

\* IS1201Test.py:246-256.  The result carries the suite object, what was
\* raised and the factory calls made.
query_device_model(s, d) ==
    IF s.device_model.kind # "None"
    THEN [self |-> s, raised |-> "", calls |-> <<>>]
    ELSE With(nc_object_factory(d, 0, NCBLOCK, ROOT_BLOCK_OID, "root"), LAMBDA r :
             [self |-> [s EXCEPT !.device_model = r.node,
                                 !.device_model_metadata.error = @ \/ r.error],
              raised |-> IF r.node.kind = "None" THEN "FAIL" ELSE "",
              calls |-> r.calls])

\* IS1201Test.py:258-272
get_manager(s, d, class_id) ==
    With(query_device_model(s, d), LAMBDA q :
        IF q.raised # ""
        THEN [self |-> q.self, raised |-> q.raised, calls |-> q.calls,
              manager |-> NoneNode]
        ELSE With(find_members_by_class_id(q.self.device_model, class_id, TRUE, FALSE),
                  LAMBDA members :
             IF Len(members) = 0 \/ Len(members) > 1
             THEN [self |-> q.self, raised |-> "FAIL", calls |-> q.calls,
                   manager |-> NoneNode]
             ELSE [self |-> q.self, raised |-> "", calls |-> q.calls,
                   manager |-> members[1]]))

\* IS1201Test.py:573-587
check_device_model(s, d) ==
    IF s.device_model_metadata.checked
    THEN [self |-> s, raised |-> "", calls |-> <<>>]
    ELSE With(get_manager([s EXCEPT !.device_model_metadata.checked = TRUE],
                          d, NCCLASSMANAGER), LAMBDA m :
         IF m.raised # ""
         THEN [self |-> [m.self EXCEPT !.walk = "raised", !.raised = m.raised],
               raised |-> m.raised, calls |-> m.calls]
         ELSE With(check_block(m.self, d, m.self.device_model,
                               m.manager.class_descriptors,
                               m.manager.datatype_descriptors), LAMBDA w :
                  [self |-> [w EXCEPT !.walk = IF w.raised = "" THEN "completed"
                                                ELSE "raised"],
                   raised |-> w.raised, calls |-> m.calls]))

\* test_08 that passes whenever no error was recorded.
test_08_never_unclear(s, d) ==
    With(check_device_model(s, d), LAMBDA r :
        [self |-> r.self, calls |-> r.calls,
         raised |-> IF r.raised = "FAIL" THEN "" ELSE r.raised,
         result |-> IF r.raised = "FAIL" THEN "UNCLEAR"
                    ELSE IF r.raised # "" THEN ""
                    ELSE IF r.self.organization_metadata.error THEN "FAIL"
                    ELSE "PASS"])

\* IS1201Test.py:676-698  test_08: an NMOSTestException of the walk gives
\* UNCLEAR, any other exception leaves the test.
test_08(s, d) ==
    With(check_device_model(s, d), LAMBDA r :
        [self |-> r.self, calls |-> r.calls,
         raised |-> IF r.raised = "FAIL" THEN "" ELSE r.raised,
         result |-> IF r.raised = "FAIL" THEN "UNCLEAR"
                    ELSE IF r.raised # "" THEN ""
                    ELSE IF r.self.organization_metadata.error THEN "FAIL"
                    ELSE IF ~r.self.organization_metadata.checked THEN "UNCLEAR"
                    ELSE "PASS"])

\* IS1201Test.py:640-656  test_06: roles are unique within a containing
\* block.
test_06(s, d) ==
    With(check_device_model(s, d), LAMBDA r :
        [self |-> r.self, calls |-> r.calls,
         raised |-> IF r.raised = "FAIL" THEN "" ELSE r.raised,
         result |-> IF r.raised = "FAIL" THEN "UNCLEAR"
                    ELSE IF r.raised # "" THEN ""
                    ELSE IF r.self.unique_roles_error THEN "FAIL"
                    ELSE "PASS"])

\* IS1201Test.py:658-674  test_07: oids are globally unique.
test_07(s, d) ==
    With(check_device_model(s, d), LAMBDA r :
        [self |-> r.self, calls |-> r.calls,
         raised |-> IF r.raised = "FAIL" THEN "" ELSE r.raised,
         result |-> IF r.raised = "FAIL" THEN "UNCLEAR"
                    ELSE IF r.raised # "" THEN ""
                    ELSE IF r.self.unique_oids_error THEN "FAIL"
                    ELSE "PASS"])

\* ------------------------------------------------------------------------
\* Devices
\* ------------------------------------------------------------------------
SeqsUpTo(S, n) == UNION {[1..k -> S] : k \in 0..n}

Descriptor(classId, oid, role, owner) ==
    [classId |-> classId, oid |-> oid, role |-> role, owner |-> owner]

ClassDescriptor(classId, name, properties) ==
    [classId |-> classId, name |-> name, properties |-> properties]

DatatypeDescriptor(name) == [classId |-> <<>>, name |-> name, properties |-> <<>>]

StandardClasses(worker_properties) ==
    <<ClassDescriptor(NCOBJECT, "NcObject", <<>>),
      ClassDescriptor(NCBLOCK, "NcBlock", <<>>),
      ClassDescriptor(NCWORKER, "NcWorker", worker_properties),
      ClassDescriptor(NCMANAGER, "NcManager", <<>>),
      ClassDescriptor(NCDEVICEMANAGER, "NcDeviceManager", <<>>),
      ClassDescriptor(NCCLASSMANAGER, "NcClassManager", <<>>)>>

StandardDatatypes ==
    <<DatatypeDescriptor("NcBlockMemberDescriptor"),
      DatatypeDescriptor("NcTouchpointNmos"),
      DatatypeDescriptor("NcTouchpointNmosChannelMapping")>>

Without(list, name) == SelectSeq(list, LAMBDA r : r.name # name)

\* The one nested block of the devices, and the Class Manager of the root.
NestedBlockOid == 3
ClassManagerMember == Descriptor(NCCLASSMANAGER, 2, "ClassManager", ROOT_BLOCK_OID)

Device(root, nested, rc_fail, control_classes, datatypes, touchpoints, property_value) ==
    [members |-> (ROOT_BLOCK_OID :> root) @@ (NestedBlockOid :> nested),
     rc_fail |-> rc_fail,
     control_classes |-> control_classes,
     datatypes |-> datatypes,
     touchpoints |-> touchpoints,
     property_value |-> property_value]

\* Devices whose answers fail or are empty: the root and the nested block
\* answer an error, null, or a list; the Class Manager answers an error, an
\* empty list or the standard catalog; one object may fail to answer its
\* runtime constraints.
BuildMembersOfRoot ==
    {Descriptor(NCBLOCK, NestedBlockOid, "block", ROOT_BLOCK_OID),
     Descriptor(NCWORKER, 4, "worker", ROOT_BLOCK_OID)}

BuildDevices ==
    {Device(root, nested, rc_fail, control_classes, datatypes, NullAnswer, NullAnswer) :
        root \in {ErrorAnswer, NullAnswer}
                 \cup {Answer(l) : l \in SeqsUpTo(BuildMembersOfRoot, MaxMembers)}
                 \cup {Answer(<<ClassManagerMember>> \o l) :
                          l \in SeqsUpTo(BuildMembersOfRoot, MaxMembers)},
        nested \in {ErrorAnswer, NullAnswer}
                 \cup {Answer(l) :
                          l \in SeqsUpTo({Descriptor(NCWORKER, 5, "worker", NestedBlockOid)},
                                         MaxMembers)},
        rc_fail \in {0, NestedBlockOid, 4},
        control_classes \in {ErrorAnswer, Answer(<<>>), Answer(StandardClasses(<<>>))},
        datatypes \in {ErrorAnswer, Answer(<<>>), Answer(StandardDatatypes)}}

\* Devices that answer everything, with oids and roles that repeat or not,
\* in one block or across the two.
WalkMembersOfRoot ==
    {Descriptor(NCWORKER, oid, role, ROOT_BLOCK_OID) :
        oid \in {ROOT_BLOCK_OID, 4}, role \in {"a", "b"}}
    \cup {Descriptor(NCBLOCK, NestedBlockOid, role, ROOT_BLOCK_OID) : role \in {"a", "b"}}

WalkMembersOfNested ==
    {Descriptor(NCWORKER, oid, role, NestedBlockOid) : oid \in {4, 5}, role \in {"a", "b"}}

WalkDevices ==
    {Device(Answer(<<ClassManagerMember>> \o root), Answer(nested), 0,
            Answer(StandardClasses(<<>>)), Answer(StandardDatatypes),
            NullAnswer, NullAnswer) :
        root \in SeqsUpTo(WalkMembersOfRoot, MaxMembers),
        nested \in SeqsUpTo(WalkMembersOfNested, MaxMembers)}

\* Devices with managers in the root block and in the nested block, owned by
\* the root block or not, and a Class Manager that may not advertise a class
\* or a datatype.
ManagerMembersOfRoot ==
    {Descriptor(NCDEVICEMANAGER, 4, "DeviceManager", owner) :
        owner \in {ROOT_BLOCK_OID, NestedBlockOid}}
    \cup {Descriptor(NCBLOCK, NestedBlockOid, "block", ROOT_BLOCK_OID),
          Descriptor(NCWORKER, 5, "worker", ROOT_BLOCK_OID),
          Descriptor(NCCLASSMANAGER, 6, "ClassManager2", ROOT_BLOCK_OID)}

ManagerMembersOfNested ==
    {Descriptor(NCDEVICEMANAGER, 7, "DeviceManager", owner) :
        owner \in {ROOT_BLOCK_OID, NestedBlockOid}}
    \cup {Descriptor(NCWORKER, 8, "worker", NestedBlockOid)}

ManagerDevices ==
    {Device(Answer(<<ClassManagerMember>> \o root), Answer(nested), 0,
            Answer(control_classes), Answer(datatypes), NullAnswer, NullAnswer) :
        root \in SeqsUpTo(ManagerMembersOfRoot, MaxMembers),
        nested \in SeqsUpTo(ManagerMembersOfNested, MaxMembers),
        control_classes \in {StandardClasses(<<>>),
                             Without(StandardClasses(<<>>), "NcDeviceManager")},
        datatypes \in {StandardDatatypes,
                       Without(StandardDatatypes, "NcBlockMemberDescriptor")}}

\* Devices with one worker that has touchpoints and one property.
Touchpoint(contextNamespace, conforms) ==
    [contextNamespace |-> contextNamespace, conforms |-> conforms]

PropertyDevices ==
    {Device(Answer(<<ClassManagerMember,
                     Descriptor(NCWORKER, 4, "worker", ROOT_BLOCK_OID)>>),
            ErrorAnswer, 0,
            Answer(StandardClasses(<<[name |-> "enabled", typeName |-> "NcBoolean"]>>)),
            Answer(datatypes), touchpoints, property_value) :
        datatypes \in {StandardDatatypes, Without(StandardDatatypes, "NcTouchpointNmos")},
        touchpoints \in {ErrorAnswer, NullAnswer, Answer(<<>>),
                         Answer(<<Touchpoint("x-nmos", TRUE)>>),
                         Answer(<<Touchpoint("x-nmos", FALSE)>>),
                         Answer(<<Touchpoint("x-nmos/channelmapping", TRUE)>>)},
        property_value \in {ErrorAnswer, NullAnswer, Answer(<<"NcBoolean">>),
                            Answer(<<"NcString">>)}}

\* Devices with members of standard classes, of non-standard classes (with
\* the authority key 0) and of classes that are neither, in the root block
\* and in the nested block; the Class Manager advertises them or not.
NonStandardWorker == <<1, 2, 0, 1>>
UnmarkedWorker == <<1, 2, 5>>

OrganizationClasses ==
    <<ClassDescriptor(NonStandardWorker, "VendorWorker", <<>>),
      ClassDescriptor(UnmarkedWorker, "UnmarkedWorker", <<>>)>>

OrganizationMembersOfRoot ==
    {Descriptor(NCWORKER, 4, "worker", ROOT_BLOCK_OID),
     Descriptor(NonStandardWorker, 5, "vendor", ROOT_BLOCK_OID),
     Descriptor(UnmarkedWorker, 6, "unmarked", ROOT_BLOCK_OID),
     Descriptor(NCBLOCK, NestedBlockOid, "block", ROOT_BLOCK_OID)}

OrganizationMembersOfNested ==
    {Descriptor(NonStandardWorker, 7, "vendor", NestedBlockOid),
     Descriptor(UnmarkedWorker, 8, "unmarked", NestedBlockOid)}

OrganizationDevices ==
    {Device(Answer(<<ClassManagerMember>> \o root), Answer(nested), 0,
            Answer(control_classes), Answer(StandardDatatypes), NullAnswer, NullAnswer) :
        root \in SeqsUpTo(OrganizationMembersOfRoot, MaxMembers),
        nested \in SeqsUpTo(OrganizationMembersOfNested, MaxMembers),
        control_classes \in {StandardClasses(<<>>),
                             StandardClasses(<<>>) \o OrganizationClasses}}

Devices ==
    <<BuildDevices, WalkDevices, ManagerDevices, PropertyDevices, OrganizationDevices>>

\* ------------------------------------------------------------------------
\* Descriptors: JSON values.  A mapping is a function of its keys, a list is
\* a sequence of JSON values, everything else (string, number, boolean,
\* null) is a scalar.
\* ------------------------------------------------------------------------
MaxItems == 2

Scalar(s) == [t |-> "scalar", s |-> s]
List(l) == [t |-> "list", l |-> l]
Dict(d) == [t |-> "dict", d |-> d]

\* IS1201Test.py:152
non_normative_keys == {"description"}

\* What a call of validate_descriptor does: it returns (raised = ""), raises
\* NMOSTestException(test.FAIL(...)) or raises a Python error.
Returned == [raised |-> "", label |-> "", key_diff |-> {}]
TestFail(label, key_diff) == [raised |-> "FAIL", label |-> label, key_diff |-> key_diff]
PythonError(exception) == [raised |-> exception, label |-> "", key_diff |-> {}]

\* IS1201Test.py:161
error_description(key_diff, reference_keys) ==
    IF key_diff \subseteq reference_keys THEN "Missing keys " ELSE "Additional keys "

\* "if key in non_normative_keys": without the test of the reference's type.
IsExemptWhateverItsType(reference, key) == key \in non_normative_keys

\* IS1201Test.py:163-165
IsExempt(reference, key) ==
    key \in non_normative_keys /\ reference.d[key].t # "dict"

\* item['name'] for the items of a list comprehension (lines 176-177): what
\* it raises for the first item that has no usable name, "" when every item
\* has one.  An item that is no mapping raises TypeError, a mapping without
\* 'name' raises KeyError, a name that is no scalar is unhashable.
RECURSIVE NameError(_, _)
NameError(list, i) ==
    IF i > Len(list) THEN ""
    ELSE IF list[i].t # "dict" THEN "TypeError"
    ELSE IF "name" \notin DOMAIN list[i].d THEN "KeyError"
    ELSE IF list[i].d["name"].t # "scalar" THEN "TypeError"
    ELSE NameError(list, i + 1)

\* IS1201Test.py:176-177  {item['name']: item for item in value}.  A scalar
\* is not iterable (or iterates characters), a non-empty mapping iterates
\* its keys, which are strings: TypeError.
ByName(value) ==
    IF value.t = "scalar" THEN [raised |-> "TypeError", value |-> Dict(EmptyDict)]
    ELSE IF value.t = "dict"
    THEN [raised |-> IF DOMAIN value.d = {} THEN "" ELSE "TypeError",
          value |-> Dict(EmptyDict)]
    ELSE With(NameError(value.l, 1), LAMBDA error :
         IF error # ""
         THEN [raised |-> error, value |-> Dict(EmptyDict)]
         ELSE [raised |-> "",
               value |-> Dict(DictOf([i \in 1..Len(value.l) |-> value.l[i].d["name"].s],
                                     value.l))])

\* IS1201Test.py:150-191.  The result is the set of the outcomes the call can
\* have: the keys of a mapping are visited in the order of a Python set, so
\* when several keys fail any of them may be the one that raises.
RECURSIVE validate_descriptor(_, _)
ValidateKey(reference, descriptor, key) ==
    IF IsExempt(reference, key)
    THEN {Returned}
    ELSE IF key = "classId" /\ reference.d[key].t = "list"
    THEN IF reference.d[key] # descriptor.d[key]
         THEN {TestFail("Unexpected ClassId", {})}
         ELSE {Returned}
    ELSE validate_descriptor(reference.d[key], descriptor.d[key])

ValidateDict(reference, descriptor) ==
    IF descriptor.t # "dict"
    THEN {PythonError("AttributeError")}
    ELSE With(DOMAIN reference.d, LAMBDA reference_keys :
         With(DOMAIN descriptor.d, LAMBDA descriptor_keys :
         With((reference_keys \cup descriptor_keys) \ (reference_keys \cap descriptor_keys),
              LAMBDA key_diff :
         IF Cardinality(key_diff) > 0
         THEN {TestFail(error_description(key_diff, reference_keys), key_diff)}
         ELSE With(UNION {ValidateKey(reference, descriptor, key) \ {Returned} :
                             key \in reference_keys},
                   LAMBDA raised : IF raised = {} THEN {Returned} ELSE raised))))

ValidateList(reference, descriptor) ==
    IF Len(reference.l) > 0 /\ reference.l[1].t = "dict"
    THEN With(ByName(reference), LAMBDA references :
         IF references.raised # ""
         THEN {PythonError(references.raised)}
         ELSE With(ByName(descriptor), LAMBDA descriptors :
              IF descriptors.raised # ""
              THEN {PythonError(descriptors.raised)}
              ELSE validate_descriptor(references.value, descriptors.value)))
    ELSE IF reference # descriptor
    THEN {TestFail("Unexpected sequence", {})}
    ELSE {Returned}

validate_descriptor(reference, descriptor) ==
    IF reference.t = "dict" THEN ValidateDict(reference, descriptor)
    ELSE IF reference.t = "list" THEN ValidateList(reference, descriptor)
    ELSE IF reference # descriptor THEN {TestFail("Expected value", {})}
    ELSE {Returned}

\* The reference and the live descriptors that are compared.
Scalars == {Scalar("x"), Scalar("y")}
DictsOver(keys, values) == UNION {[ks -> values] : ks \in SUBSET keys}
Pairs(references, descriptors) ==
    {[reference |-> r, descriptor |-> d] : r \in references, d \in descriptors}

\* Mappings of scalars whose key sets differ or agree.
KeyDescriptors == {Dict(d) : d \in DictsOver({"name", "description", "role"}, Scalars)}

\* Lists of objects that have a name, under the key 'properties'; an object
\* may be named 'description'.
Items ==
    {Dict([name |-> Scalar(n), value |-> v]) : n \in {"p", "description"}, v \in Scalars}
ListDescriptors == {Dict([properties |-> List(l)]) : l \in SeqsUpTo(Items, MaxItems)}

\* Plain lists, under the key 'classId' and under another key.
PlainLists == {List(l) : l \in SeqsUpTo(Scalars, MaxItems)}
PlainListDescriptors ==
    {Dict([classId |-> l]) : l \in PlainLists} \cup {Dict([value |-> l]) : l \in PlainLists}

\* A description that is a scalar, a list or a mapping, beside a name.
DescriptionValues ==
    Scalars \cup {List(<<>>), List(<<Scalar("x")>>)}
            \cup {Dict([name |-> s]) : s \in Scalars}
DescriptionDescriptors ==
    {Dict([name |-> n, description |-> v]) : n \in Scalars, v \in DescriptionValues}

\* Values of every type against values of every type.
Shapes ==
    {Scalar("x"), List(<<>>), List(<<Scalar("x")>>), Dict(EmptyDict),
     Dict([name |-> Scalar("x")]), List(<<Dict([name |-> Scalar("x")])>>),
     List(<<Dict([value |-> Scalar("x")])>>), List(<<Dict([name |-> List(<<>>)])>>),
     List(<<Dict([name |-> Scalar("x")]), Scalar("x")>>)}

DescriptorPairs ==
    Pairs(KeyDescriptors, KeyDescriptors) \cup Pairs(ListDescriptors, ListDescriptors)
        \cup Pairs(PlainListDescriptors, PlainListDescriptors)
        \cup Pairs(DescriptionDescriptors, DescriptionDescriptors)
        \cup Pairs(Shapes, Shapes)

\* ------------------------------------------------------------------------
\* Model definitions: the catalogs of the Class Manager against the
\* reference catalogs.
\* ------------------------------------------------------------------------
MaxKeys == 3

\* Keys of a catalog, in the ascending order of Python's sorted().
CatalogKeys == <<"1", "1.1", "1.2", "1.3", "1.3.1">>
Keys == {CatalogKeys[i] : i \in 1..MaxKeys}
Rank(key) == CHOOSE i \in 1..Len(CatalogKeys) : CatalogKeys[i] = key

\* IS1201Test.py:224  sorted(reference_descriptors.keys())
RECURSIVE sorted(_)
sorted(keys) ==
    IF keys = {}
    THEN <<>>
    ELSE With(CHOOSE key \in keys : \A other \in keys : Rank(key) <= Rank(other),
              LAMBDA first : <<first>> \o sorted(keys \ {first}))

\* A test result: test.PASS(), test.UNCLEAR(...), test.FAIL(...) of the test
\* "auto_" + key.
TestResult(key, state, detail) == [key |-> key, state |-> state, detail |-> detail]

\* The body of the loop without the schema validation.
ValidateDefinitionWithoutSchema(descriptors, reference_descriptors, key) ==
    IF key \notin DOMAIN descriptors
    THEN {[raised |-> "", result |-> TestResult(key, "UNCLEAR", "Not Implemented")]}
    ELSE {IF raised.raised = ""
          THEN [raised |-> "", result |-> TestResult(key, "PASS", "")]
          ELSE IF raised.raised = "FAIL"
          THEN [raised |-> "", result |-> TestResult(key, "FAIL", raised.label)]
          ELSE [raised |-> raised.raised, result |-> TestResult(key, "", "")] :
             raised \in validate_descriptor(reference_descriptors[key],
                                            descriptors[key].value)}

\* IS1201Test.py:227-242  the body of the loop for one key: the results it
\* can append, or the Python error that leaves validate_model_definitions.
\* A descriptor of the live catalog is a non-empty mapping (it has a name,
\* line 216), so descriptors.get(key) is falsy only when the key is absent.
ValidateDefinition(descriptors, reference_descriptors, key) ==
    IF key \notin DOMAIN descriptors
    THEN {[raised |-> "", result |-> TestResult(key, "UNCLEAR", "Not Implemented")]}
    ELSE IF validate_schema(TRUE, descriptors[key].conforms) # ""
    THEN {[raised |-> "", result |-> TestResult(key, "FAIL", "Schema validation error")]}
    ELSE {IF raised.raised = ""
          THEN [raised |-> "", result |-> TestResult(key, "PASS", "")]
          ELSE IF raised.raised = "FAIL"
          THEN [raised |-> "", result |-> TestResult(key, "FAIL", raised.label)]
          ELSE [raised |-> raised.raised, result |-> TestResult(key, "", "")] :
             raised \in validate_descriptor(reference_descriptors[key],
                                            descriptors[key].value)}

\* A loop inside one try: the first failure is the last result.
RECURSIVE ValidateDefinitionsInOneTry(_, _, _, _)
ValidateDefinitionsInOneTry(descriptors, reference_descriptors, keys, i) ==
    IF i > Len(keys)
    THEN {[raised |-> "", results |-> <<>>]}
    ELSE UNION {
        IF step.raised # ""
        THEN {[raised |-> step.raised, results |-> <<>>]}
        ELSE IF step.result.state = "FAIL"
        THEN {[raised |-> "", results |-> <<step.result>>]}
        ELSE {[raised |-> rest.raised,
               results |-> IF rest.raised # "" THEN <<>>
                           ELSE <<step.result>> \o rest.results] :
                 rest \in ValidateDefinitionsInOneTry(descriptors, reference_descriptors,
                                                      keys, i + 1)} :
        step \in ValidateDefinition(descriptors, reference_descriptors, keys[i])}

\* IS1201Test.py:226-242  the loop from the i-th key on: the result lists it
\* can build.  A Python error leaves the function, with no results.
RECURSIVE ValidateDefinitions(_, _, _, _)
ValidateDefinitions(descriptors, reference_descriptors, keys, i) ==
    IF i > Len(keys)
    THEN {[raised |-> "", results |-> <<>>]}
    ELSE UNION {
        IF step.raised # ""
        THEN {[raised |-> step.raised, results |-> <<>>]}
        ELSE {[raised |-> rest.raised,
               results |-> IF rest.raised # "" THEN <<>>
                           ELSE <<step.result>> \o rest.results] :
                 rest \in ValidateDefinitions(descriptors, reference_descriptors,
                                              keys, i + 1)} :
        step \in ValidateDefinition(descriptors, reference_descriptors, keys[i])}

\* IS1201Test.py:220-244
validate_model_definitions(descriptors, reference_descriptors) ==
    ValidateDefinitions(descriptors, reference_descriptors,
                        sorted(DOMAIN reference_descriptors), 1)

\* The reference descriptor of a key, and the live descriptors a device may
\* have for it: with the name of the reference or another one, conforming
\* to the schema of the catalog or not.
ReferenceDescriptor(key) ==
    Dict([name |-> Scalar(key), description |-> Scalar("x")])
LiveDescriptor(name, conforms) ==
    [value |-> Dict([name |-> Scalar(name), description |-> Scalar("y")]),
     conforms |-> conforms]
ReferenceCatalogs == {[key \in ks |-> ReferenceDescriptor(key)] : ks \in SUBSET Keys \ {{}}}

\* A class of the device that the reference catalog does not have.
LiveOnlyKey == "2"
LiveCatalogs ==
    UNION {{[key \in ks |-> LiveDescriptor(IF standard[key] THEN key ELSE "other",
                                           conforms[key])] :
               standard \in [ks -> BOOLEAN], conforms \in [ks -> BOOLEAN]} :
           ks \in SUBSET (Keys \cup {LiveOnlyKey})}

\* ------------------------------------------------------------------------
\* Searches of a block: the result of the local mirror against the answer of
\* the device.
\* ------------------------------------------------------------------------
MaxResults == 2

Oids(members) == [i \in 1..Len(members) |-> members[i].oid]

\* The loop over the answer of do_get_member_descriptors_test (lines
\* 962-973): the schema of each member, then its oid.
RECURSIVE CheckQueriedMembers(_, _, _)
CheckQueriedMembers(queried_members, i, expected_members_oids) ==
    IF i > Len(queried_members) THEN ""
    ELSE IF validate_schema(TRUE, queried_members[i].conforms) # "" THEN "FAIL"
    ELSE IF ~InSeq(queried_members[i].oid, expected_members_oids) THEN "FAIL"
    ELSE CheckQueriedMembers(queried_members, i + 1, expected_members_oids)

\* IS1201Test.py:943-973  one search condition of
\* do_get_member_descriptors_test; expected_members are the oids of the
\* mirror's member descriptors.
get_member_descriptors_check(expected_members, queried_members) ==
    IF ~queried_members.ok \/ queried_members.null THEN "FAIL"
    ELSE IF Len(queried_members.value) # Len(expected_members) THEN "FAIL"
    ELSE CheckQueriedMembers(queried_members.value, 1, expected_members)

\* IS1201Test.py:1076-1091 and 1133-1146  one query of
\* do_find_member_by_role_test and of do_find_members_by_class_id_test;
\* len() of an answer that is null raises TypeError.
find_members_check(expected_results_oids, actual_results) ==
    IF ~actual_results.ok \/ actual_results.null THEN "TypeError"
    ELSE IF Len(actual_results.value) # Len(expected_results_oids) THEN "FAIL"
    ELSE IF \E i \in 1..Len(actual_results.value) :
                ~InSeq(actual_results.value[i].oid, expected_results_oids)
    THEN "FAIL"
    ELSE ""

\* The check of one role path that accepts an answer of any length.
find_member_by_path_check_of_any_length(expected_member, queried_members) ==
    IF ~queried_members.ok \/ queried_members.null THEN "FAIL"
    ELSE IF \E i \in 1..Len(queried_members.value) :
                validate_schema(TRUE, queried_members.value[i].conforms) # ""
    THEN "FAIL"
    ELSE IF ~InSeq(expected_member, Oids(queried_members.value)) THEN "FAIL"
    ELSE ""

\* IS1201Test.py:996-1027  one role path of do_find_member_by_path_test;
\* expected_member is the oid of the node the mirror resolves.
find_member_by_path_check(expected_member, queried_members) ==
    IF ~queried_members.ok \/ queried_members.null THEN "FAIL"
    ELSE IF \E i \in 1..Len(queried_members.value) :
                validate_schema(TRUE, queried_members.value[i].conforms) # ""
    THEN "FAIL"
    ELSE IF Len(queried_members.value) # 1 THEN "FAIL"
    ELSE IF ~InSeq(expected_member, Oids(queried_members.value)) THEN "FAIL"
    ELSE ""

\* The oids of a search and the member descriptors a device may answer.
SearchOids == {4, 5}
QueriedMember(oid, conforms) == [oid |-> oid, conforms |-> conforms]
ExpectedResults == SeqsUpTo(SearchOids, MaxResults)
ActualResults ==
    {NullAnswer} \cup
    {Answer(l) : l \in SeqsUpTo({QueriedMember(oid, conforms) :
                                    oid \in SearchOids, conforms \in BOOLEAN},
                                MaxResults)}

\* ------------------------------------------------------------------------
\* Constraints: check_constraint on the constraints of properties.
\* A JSON value of a constraint is null, a number, a string, a boolean or a
\* list of such values; a key that is absent reads as null (dict.get).
\* ------------------------------------------------------------------------
MaxProperties == 2

JsonNull == [t |-> "null"]
JsonNumber(n) == [t |-> "number", n |-> n]
JsonString(s) == [t |-> "string", s |-> s]
JsonBoolean(b) == [t |-> "boolean", b |-> b]

\* The truth value Python gives a JSON value in "if value" and "a or b".
Truthy(value) ==
    CASE value.t = "null" -> FALSE
      [] value.t = "number" -> value.n # 0
      [] value.t = "string" -> value.s # ""
      [] value.t = "boolean" -> value.b
      [] value.t = "list" -> Len(value.l) > 0

\* IS1201Test.py:1428-1431.  The recursive call passes self twice
\* (self.resolve_datatype(self, parent, descriptors)): the bound method takes
\* two arguments and is given three, so the call raises TypeError whenever
\* the datatype has a parentType.  A datatype with no parentType (null, here
\* "") is returned as it is; one that is no key of the catalog raises
\* KeyError.
resolve_datatype(datatype, datatype_descriptors) ==
    IF datatype \notin DOMAIN datatype_descriptors
    THEN [raised |-> "KeyError", value |-> ""]
    ELSE IF datatype_descriptors[datatype].parentType # ""
    THEN [raised |-> "TypeError", value |-> ""]
    ELSE [raised |-> "", value |-> datatype]

\* IS1201Test.py:1453-1454, 1460
numeric_datatypes ==
    {"NcInt16", "NcInt32", "NcInt64", "NcUint16", "NcUint32", "NcUint64",
     "NcFloat32", "NcFloat64"}
string_datatypes == {"NcString"}

\* self.datatype_schemas.get(typeName) and jsonschema's validation of a value
\* against it: a number for the numeric primitives and the types derived
\* from them, a string for NcString, a boolean for NcBoolean.
RECURSIVE PrimitiveOf(_, _)
PrimitiveOf(datatype, datatype_descriptors) ==
    IF datatype_descriptors[datatype].parentType = ""
    THEN datatype
    ELSE PrimitiveOf(datatype_descriptors[datatype].parentType, datatype_descriptors)

ConformsTo(value, type_name, datatype_descriptors) ==
    With(PrimitiveOf(type_name, datatype_descriptors), LAMBDA primitive :
        \/ value.t = "number" /\ primitive \in numeric_datatypes
        \/ value.t = "string" /\ primitive \in string_datatypes
        \/ value.t = "boolean" /\ primitive = "NcBoolean")

\* IS1201Test.py:1435-1448  the default value: "return" when its
\* sequence-ness is not is_sequence, "FAIL" when a value does not validate,
\* "" when the check goes on.
ValidateValue(value, type_name, datatype_descriptors) ==
    IF type_name \notin DOMAIN datatype_descriptors
    THEN validate_schema(FALSE, FALSE)
    ELSE validate_schema(TRUE, ConformsTo(value, type_name, datatype_descriptors))

DefaultValueCheck(constraint, type_name, datatype_descriptors, is_sequence) ==
    IF ~Truthy(constraint.defaultValue) THEN ""
    ELSE IF (constraint.defaultValue.t = "list") # is_sequence THEN "return"
    ELSE IF is_sequence
    THEN IF \E i \in 1..Len(constraint.defaultValue.l) :
                ValidateValue(constraint.defaultValue.l[i], type_name,
                              datatype_descriptors) # ""
         THEN "FAIL" ELSE ""
    ELSE ValidateValue(constraint.defaultValue, type_name, datatype_descriptors)

\* test_metadata["error"] = True; test_metadata["error_msg"] = context + ...
\* The message is assigned, not appended to.
RecordError(test_metadata, context) ==
    [test_metadata EXCEPT !.error = TRUE, !.error_msg = <<context>>]

\* IS1201Test.py:1452-1464  the legality of the constraint for the datatype.
CheckLegality(constraint, datatype, test_metadata, context) ==
    With(IF /\ \/ Truthy(constraint.minimum)
               \/ Truthy(constraint.maximum)
               \/ Truthy(constraint.step)
            /\ datatype \notin numeric_datatypes
         THEN RecordError(test_metadata, context)
         ELSE test_metadata, LAMBDA number_checked :
        IF /\ Truthy(constraint.maxCharacters) \/ Truthy(constraint.pattern)
           /\ datatype \notin string_datatypes
        THEN RecordError(number_checked, context)
        ELSE number_checked)

\* IS1201Test.py:1433-1464
check_constraint(constraint, type_name, datatype_descriptors, is_sequence, test_metadata, context) ==
    With(DefaultValueCheck(constraint, type_name, datatype_descriptors, is_sequence),
         LAMBDA default_value :
        IF default_value = "return"
        THEN [raised |-> "", test_metadata |-> RecordError(test_metadata, context)]
        ELSE IF default_value # ""
        THEN [raised |-> default_value, test_metadata |-> test_metadata]
        ELSE With(resolve_datatype(type_name, datatype_descriptors), LAMBDA datatype :
             IF datatype.raised # ""
             THEN [raised |-> datatype.raised, test_metadata |-> test_metadata]
             ELSE [raised |-> "",
                   test_metadata |-> CheckLegality(constraint, datatype.value,
                                                   test_metadata, context)]))

\* IS1201Test.py:61-63  the metadata of a constraint test after set_up_tests;
\* error_msg is the list of the contexts the message names.
NoConstraintsChecked == [checked |-> FALSE, error |-> FALSE, error_msg |-> <<>>]

\* IS1201Test.py:1507-1521  the loop of do_validate_property_constraints_test
\* over the properties of the class of one object.
RECURSIVE ValidateProperties(_, _, _, _)
ValidateProperties(class_properties, i, datatype_descriptors, test_metadata) ==
    IF i > Len(class_properties)
    THEN [raised |-> "", test_metadata |-> test_metadata]
    ELSE IF class_properties[i].constraints.t = "null"
    THEN ValidateProperties(class_properties, i + 1, datatype_descriptors, test_metadata)
    ELSE With(check_constraint(class_properties[i].constraints.c,
                               class_properties[i].typeName, datatype_descriptors,
                               class_properties[i].isSequence,
                               [test_metadata EXCEPT !.checked = TRUE],
                               class_properties[i].name), LAMBDA checked :
         IF checked.raised # ""
         THEN checked
         ELSE ValidateProperties(class_properties, i + 1, datatype_descriptors,
                                 checked.test_metadata))

\* IS1201Test.py:1528-1546  test_34 for a device model of one object.
test_34(class_properties, datatype_descriptors) ==
    With(ValidateProperties(class_properties, 1, datatype_descriptors,
                            NoConstraintsChecked), LAMBDA r :
        [raised |-> r.raised, test_metadata |-> r.test_metadata,
         result |-> IF r.raised # "" THEN ""
                    ELSE IF r.test_metadata.error THEN "FAIL"
                    ELSE IF ~r.test_metadata.checked THEN "UNCLEAR"
                    ELSE "PASS"])

\* The datatypes of the Class Manager: primitives (no parentType) and
\* typedefs of one and of two levels.
Datatype(parentType) == [parentType |-> parentType]
DatatypeCatalog ==
    [name \in {"NcInt32", "NcUint32", "NcString", "NcBoolean", "NcOid", "NcName",
               "NcVendorOid"} |->
        Datatype(CASE name = "NcOid" -> "NcUint32"
                   [] name = "NcName" -> "NcString"
                   [] name = "NcVendorOid" -> "NcOid"
                   [] OTHER -> "")]

\* The constraints of a property: a range, a string constraint or a default
\* value, with values that Python takes for false (0, "", false, []) or not.
Constraints(defaultValue, minimum, maximum, step, maxCharacters, pattern) ==
    [t |-> "constraints",
     c |-> [defaultValue |-> defaultValue, minimum |-> minimum, maximum |-> maximum,
            step |-> step, maxCharacters |-> maxCharacters, pattern |-> pattern]]
NumberOrNull == {JsonNull, JsonNumber(0), JsonNumber(1)}
RangeConstraints ==
    {Constraints(JsonNull, minimum, maximum, step, JsonNull, JsonNull) :
        minimum \in NumberOrNull, maximum \in NumberOrNull, step \in NumberOrNull}
StringConstraints ==
    {Constraints(JsonNull, JsonNull, JsonNull, JsonNull, maxCharacters, pattern) :
        maxCharacters \in {JsonNull, JsonNumber(0), JsonNumber(8)},
        pattern \in {JsonNull, JsonString(""), JsonString("a")}}
DefaultValues ==
    {JsonNumber(0), JsonNumber(1), JsonBoolean(FALSE), JsonBoolean(TRUE),
     JsonString(""), JsonString("a"), List(<<>>), List(<<JsonNumber(1)>>),
     List(<<JsonString("a")>>), List(<<JsonNumber(1), JsonString("a")>>)}
DefaultConstraints ==
    {Constraints(defaultValue, JsonNull, JsonNull, JsonNull, JsonNull, JsonNull) :
        defaultValue \in DefaultValues}

ClassProperty(name, typeName, isSequence, constraints) ==
    [name |-> name, typeName |-> typeName, isSequence |-> isSequence,
     constraints |-> constraints]

\* One property of any type with any constraint.
SingleProperties ==
    {<<ClassProperty("p", typeName, isSequence, constraints)>> :
        typeName \in DOMAIN DatatypeCatalog \cup {"NcUnknown"},
        isSequence \in BOOLEAN,
        constraints \in RangeConstraints \cup StringConstraints \cup DefaultConstraints}

\* Several properties: with no constraint, with a legal one, with an illegal
\* range and with an illegal pattern.
Range01 == Constraints(JsonNull, JsonNumber(1), JsonNumber(1), JsonNull, JsonNull, JsonNull)
PatternA == Constraints(JsonNull, JsonNull, JsonNull, JsonNull, JsonNull, JsonString("a"))
PropertyKinds ==
    {[typeName |-> "NcInt32", constraints |-> JsonNull],
     [typeName |-> "NcInt32", constraints |-> Range01],
     [typeName |-> "NcString", constraints |-> Range01],
     [typeName |-> "NcBoolean", constraints |-> PatternA]}
PropertyNames == <<"p", "q", "r", "s">>
SeveralProperties ==
    {[i \in 1..Len(kinds) |->
         ClassProperty(PropertyNames[i], kinds[i].typeName, FALSE, kinds[i].constraints)] :
        kinds \in SeqsUpTo(PropertyKinds, MaxProperties)}


\* ------------------------------------------------------------------------
\* Notifications: test_32 subscribes to the oids of the device model, writes
\* the user label of each twice and reads the notifications of each write.
\* ------------------------------------------------------------------------
MaxNotifications == 2

\* NcObjectProperties.USER_LABEL, another property id, NcObjectEvents.
\* PROPERTY_CHANGED and NcPropertyChangeType.ValueChanged, by name.
USER_LABEL == "1p6"
PROPERTY_CHANGED == "1e1"
ValueChanged == "ValueChanged"

Notification(oid, eventId, propertyId, changeType, value, sequenceItemIndex) ==
    [oid |-> oid, eventId |-> eventId, propertyId |-> propertyId,
     changeType |-> changeType, value |-> value, sequenceItemIndex |-> sequenceItemIndex]

\* IS1201Test.py:1390-1414  the body of the loop over the notifications of one
\* write, for one notification; st is (oids, error).
check_notification(st, notification, oid, label) ==
    IF notification.oid # oid
    THEN st
    ELSE With([st EXCEPT !.error = @ \/ notification.eventId # PROPERTY_CHANGED],
              LAMBDA event_checked :
         IF notification.propertyId # USER_LABEL
         THEN event_checked
         ELSE [oids |-> [event_checked.oids EXCEPT ![oid] = @ + 1],
               error |-> \/ event_checked.error
                         \/ notification.changeType # ValueChanged
                         \/ notification.value # label
                         \/ notification.sequenceItemIndex # "None"])

\* The loop without the test of the oid of the notification.
RECURSIVE check_notifications_of_any_oid(_, _, _, _, _)
check_notifications_of_any_oid(st, notifications, i, oid, label) ==
    IF i > Len(notifications)
    THEN st
    ELSE check_notifications_of_any_oid(
             check_notification(st, [notifications[i] EXCEPT !.oid = oid], oid, label),
             notifications, i + 1, oid, label)

\* IS1201Test.py:1389-1414  for notification in get_notifications()
RECURSIVE check_notifications(_, _, _, _, _)
check_notifications(st, notifications, i, oid, label) ==
    IF i > Len(notifications)
    THEN st
    ELSE check_notifications(check_notification(st, notifications[i], oid, label),
                             notifications, i + 1, oid, label)

\* sorted([i for i, v in oids.items() if v != 2])
RECURSIVE SortedOids(_)
SortedOids(set) ==
    IF set = {}
    THEN <<>>
    ELSE With(CHOOSE oid \in set : \A other \in set : oid <= other,
              LAMBDA first : <<first>> \o SortedOids(set \ {first}))

\* IS1201Test.py:1416-1426  the verdict of test_32 and the oids its message
\* names.
test_32_verdict(counters, error_found) ==
    With({oid \in DOMAIN counters : counters[oid] # 2}, LAMBDA missing :
        IF missing # {}
        THEN [result |-> "FAIL", named |-> SortedOids(missing)]
        ELSE IF \A oid \in DOMAIN counters : counters[oid] # 2
        THEN [result |-> "FAIL", named |-> <<>>]
        ELSE [result |-> IF error_found THEN "FAIL" ELSE "PASS", named |-> <<>>])

\* The oids test_32 monitors: the root block and the objects of the mirror.
MonitoredOids == {<<ROOT_BLOCK_OID>>, <<ROOT_BLOCK_OID, 4>>}
UnmonitoredOid == 9

\* The labels in the other order.
LabelsRestoredFirst == <<"old_user_label", "new_user_label">>

\* The labels written to an oid, in order: the new label, then the label
\* read before the probe.
Labels == <<"new_user_label", "old_user_label">>

\* The notifications a device may send during the write of a label to an
\* oid: the one expected, one for another oid, one for another property, and
\* ones with a change type, a value or a sequence item index that are wrong.
\* A device of one object sends any of them; a device of two objects sends
\* the expected notification, for the oid written or for the other one.
NotificationsOfWrite(oid, label, others) ==
    IF others = {}
    THEN {Notification(oid, PROPERTY_CHANGED, USER_LABEL, ValueChanged, label, "None"),
          Notification(oid, PROPERTY_CHANGED, "1p1", ValueChanged, label, "None"),
          Notification(oid, PROPERTY_CHANGED, USER_LABEL, "SequenceItemAdded", label, "None"),
          Notification(oid, PROPERTY_CHANGED, USER_LABEL, ValueChanged, "another label", "None"),
          Notification(oid, PROPERTY_CHANGED, USER_LABEL, ValueChanged, label, "0"),
          Notification(oid, "1e2", USER_LABEL, ValueChanged, label, "None"),
          Notification(UnmonitoredOid, PROPERTY_CHANGED, USER_LABEL, ValueChanged, label, "None")}
    ELSE {Notification(other, PROPERTY_CHANGED, USER_LABEL, ValueChanged, label, "None") :
             other \in others \cup {oid}}

\* The position of test_32 after the notifications of a write were read: the
\* second label, the next oid, or the verdict.
AfterWrite(position, count) ==
    IF position.k < Len(Labels)
    THEN [position EXCEPT !.at = "start_logging_notifications", !.k = @ + 1]
    ELSE IF position.i < count
    THEN [at |-> "get_property", i |-> position.i + 1, k |-> 1]
    ELSE [position EXCEPT !.at = "verdict"]

\* What is known of a write once its notifications were read: how many
\* carried its oid and the user-label property id, and whether one of those
\* had a wrong change type, value or sequence item index.
Matching(list, oid) ==
    SelectSeq(list, LAMBDA n : n.oid = oid /\ n.propertyId = USER_LABEL)
WriteRecord(oid, label, list) ==
    [oid |-> oid, label |-> label, matching |-> Len(Matching(list, oid)),
     others |-> Len(list) - Len(Matching(list, oid)),
     mismatched |-> \E j \in 1..Len(list) :
                       /\ list[j].oid = oid /\ list[j].propertyId = USER_LABEL
                       /\ \/ list[j].changeType # ValueChanged
                          \/ list[j].value # label
                          \/ list[j].sequenceItemIndex # "None"]

\* ------------------------------------------------------------------------
\* Error tests: do_error_test sends a command that the device must answer
\* with an error, and gives a verdict on the answer.
\* ------------------------------------------------------------------------

\* The members of NcMethodStatus, by name.
NcMethodStatus ==
    {"OK", "BadCommandFormat", "BadOid", "Readonly", "IndexOutOfBounds",
     "MethodNotImplemented", "PropertyNotImplemented"}

\* The value of the key 'status' of an error: a member of NcMethodStatus,
\* the number 0, or a number that is no member of NcMethodStatus.
Zero == "0"
NoMember == "999"
StatusValues == NcMethodStatus \cup {Zero, NoMember}

\* expected_status: None, or a member of NcMethodStatus.
NoExpectedStatus == [given |-> FALSE, status |-> ""]
ExpectedStatus(status) == [given |-> TRUE, status |-> status]

\* What send_command did: it returned the response of the device, or it
\* raised NMOSTestException with the detail given.
CommandSucceeded == [raised |-> "", is_dict |-> FALSE, has_status |-> FALSE, status |-> ""]
CommandFailedWithText ==
    [raised |-> "NMOSTestException", is_dict |-> FALSE, has_status |-> FALSE, status |-> ""]
CommandFailedWithoutStatus ==
    [raised |-> "NMOSTestException", is_dict |-> TRUE, has_status |-> FALSE, status |-> ""]
CommandFailed(status) ==
    [raised |-> "NMOSTestException", is_dict |-> TRUE, has_status |-> TRUE, status |-> status]

ErrorTestReturns(result) == [raised |-> "", result |-> result]
ErrorTestRaises(exception) == [raised |-> exception, result |-> ""]

\* IS1201Test.py:1160-1204
do_error_test(sent, expected_status) ==
    IF sent.raised = ""
    THEN ErrorTestReturns("FAIL")
    ELSE IF ~sent.is_dict
    THEN ErrorTestRaises("NMOSTestException")
    \* not error_msg.get('status')
    ELSE IF ~sent.has_status \/ sent.status = Zero
    THEN ErrorTestReturns("FAIL")
    \* expected_status.name, of None when no status is expected
    ELSE IF sent.status = "OK"
    THEN IF expected_status.given
         THEN ErrorTestReturns("FAIL")
         ELSE ErrorTestRaises("AttributeError")
    \* NcMethodStatus(error_msg['status']).name
    ELSE IF expected_status.given /\ sent.status # expected_status.status
    THEN IF sent.status \in NcMethodStatus
         THEN ErrorTestReturns("WARNING")
         ELSE ErrorTestRaises("ValueError")
    ELSE ErrorTestReturns("PASS")

\* The answers of a device to the command of an error test.
CommandOutcomes ==
    {CommandSucceeded, CommandFailedWithText, CommandFailedWithoutStatus}
        \cup {CommandFailed(status) : status \in StatusValues}

\* The expected status of test_27 to test_31.
ExpectedStatusOfTest ==
    [test_27 |-> "BadOid", test_28 |-> "PropertyNotImplemented",
     test_29 |-> "MethodNotImplemented", test_30 |-> "Readonly",
     test_31 |-> "IndexOutOfBounds"]
ProtocolErrorTests == {"test_23", "test_24", "test_25", "test_26"}

\* ------------------------------------------------------------------------
\* The socket: test_03 polls whether the WebSocket is open until
\* WS_MESSAGE_TIMEOUT has elapsed.  Time is counted in units of the 0.2 s
\* that test_03 sleeps between two polls.
\* ------------------------------------------------------------------------
MaxTimeout == 4
MaxSleep == 2

\* The poll that answers whatever the socket is.
test_03_poll_of_the_clock_only(is_open, time, start_time, timeout) ==
    IF time < start_time + timeout THEN "sleep" ELSE "PASS"

\* IS1201Test.py:323-328  one evaluation of the loop: the verdict, or
\* "sleep" when the loop goes on.
test_03_poll(is_open, time, start_time, timeout) ==
    IF time < start_time + timeout
    THEN IF ~is_open THEN "FAIL" ELSE "sleep"
    ELSE "PASS"

\* ------------------------------------------------------------------------
\* The user label: test_16 writes a new user label to the root block, reads
\* it, writes the old one back and reads it.
\* ------------------------------------------------------------------------

\* new_user_label of test_16, and the labels a device may hold (null is one).
NMOS_TESTING_TOOL == "NMOS Testing Tool"
UserLabels == {NMOS_TESTING_TOOL, "label a", "label b", "null"}

\* The check that fails only when the label read is the other one.
check_label_is_not_the_other(label, written, other) ==
    IF label # written /\ label = other
    THEN "Unable to set user label"
    ELSE ""

\* IS1201Test.py:875-880, 886-891  the check of the label read after a
\* write: the message of the failure, or "" when the label is the one
\* written.
check_label(label, written, other) ==
    IF label # written
    THEN IF label = other
         THEN "Unable to set user label"
         ELSE "Unexpected user label"
    ELSE ""

\* ------------------------------------------------------------------------
\* Properties of an object: check_object_properties reads each property of
\* the class of a member, validates its type and, for a sequence, checks
\* GetSequenceItem and GetSequenceLength against the value read.
\* ------------------------------------------------------------------------
MaxElements == 2

JsonList(l) == [t |-> "list", l |-> l]

\* IS12Utils.primitive_to_python_type: the Python type of a primitive
\* datatype.
primitive_to_python_type ==
    [NcBoolean |-> "bool", NcInt32 |-> "int", NcFloat32 |-> "float", NcString |-> "str"]

\* isinstance(value, python_type); a bool is an int in Python.
isinstance(value, python_type) ==
    CASE value.t = "boolean" -> python_type \in {"bool", "int"}
      [] value.t = "number" -> python_type = "int"
      [] value.t = "string" -> python_type = "str"
      [] OTHER -> FALSE

\* IS1201Test.py:348-367  what validate_property_type raises for a value of
\* a primitive datatype, "" when nothing.
validate_property_type(value, data_type, is_nullable) ==
    IF value.t = "null"
    THEN IF is_nullable THEN "" ELSE "FAIL"
    ELSE IF primitive_to_python_type[data_type] = "float" /\ isinstance(value, "int")
    THEN ""
    ELSE IF ~isinstance(value, primitive_to_python_type[data_type])
    THEN "FAIL"
    ELSE ""

\* The metadata of a walk that read no property yet.  error_msg is the list
\* of what was appended to it.
NoPropertyChecked ==
    [raised |-> "",
     device_model_metadata |-> [error |-> FALSE],
     get_sequence_item_metadata |-> [checked |-> FALSE, error |-> FALSE, error_msg |-> <<>>],
     get_sequence_length_metadata |-> [checked |-> FALSE, error |-> FALSE],
     items_read |-> 0]

\* IS1201Test.py:379-388  the loop of check_get_sequence_item.  The message
\* of a mismatch is built with  " at index " + sequence_index , a str and an
\* int: the statement raises TypeError after the error flag was set.
\* get_sequence_item raises NMOSTestException when the device answers an
\* error, as it does for an index it has no answer for.
get_sequence_item(items, sequence_index) ==
    IF sequence_index + 1 \in DOMAIN items
    THEN items[sequence_index + 1]
    ELSE [ok |-> FALSE, value |-> JsonNull]

RECURSIVE GetSequenceItems(_, _, _, _, _)
GetSequenceItems(st, sequence_values, items, sequence_index, name) ==
    IF sequence_index >= Len(sequence_values)
    THEN st
    ELSE With([st EXCEPT !.items_read = @ + 1], LAMBDA read :
         IF ~get_sequence_item(items, sequence_index).ok
         THEN [read EXCEPT !.get_sequence_item_metadata.error = TRUE,
                           !.get_sequence_item_metadata.error_msg =
                               Append(@, [name |-> name, what |-> "error"])]
         ELSE IF sequence_values[sequence_index + 1]
                     # get_sequence_item(items, sequence_index).value
         THEN [read EXCEPT !.get_sequence_item_metadata.error = TRUE,
                           !.raised = "TypeError"]
         ELSE GetSequenceItems(read, sequence_values, items, sequence_index + 1, name))

\* IS1201Test.py:369-393
check_get_sequence_item(st, sequence_values, items, property_metadata) ==
    GetSequenceItems([st EXCEPT !.get_sequence_item_metadata.checked = TRUE],
                     sequence_values, items, 0, property_metadata.name)

\* IS1201Test.py:395-416
check_get_sequence_length(st, sequence_values, length) ==
    With([st EXCEPT !.get_sequence_length_metadata.checked = TRUE], LAMBDA checked :
        IF length.ok /\ length.value = Len(sequence_values)
        THEN checked
        ELSE [checked EXCEPT !.get_sequence_length_metadata.error = TRUE])

\* IS1201Test.py:418-421  an exception of the first check leaves the method.
check_sequence_methods(st, sequence_values, live, property_metadata) ==
    With(check_get_sequence_item(st, sequence_values, live.items, property_metadata),
         LAMBDA item_checked :
        IF item_checked.raised # ""
        THEN item_checked
        ELSE check_get_sequence_length(item_checked, sequence_values, live.length))

\* IS1201Test.py:437-462  the body of the loop of check_object_properties
\* for one property: the value is read, a value that is None or falsy is
\* skipped, a sequence is validated element by element and then checked
\* with the sequence methods.  Iterating over a number or a boolean raises
\* TypeError; iterating over a string gives its characters.
check_object_property(st, class_property, live) ==
    IF ~live.get.ok
    THEN [st EXCEPT !.device_model_metadata.error = TRUE]
    ELSE IF ~Truthy(live.get.value)
    THEN st
    ELSE IF class_property.isSequence
    THEN IF live.get.value.t \in {"number", "boolean"}
         THEN [st EXCEPT !.raised = "TypeError"]
         ELSE With(IF live.get.value.t = "string"
                   THEN <<live.get.value>>
                   ELSE live.get.value.l, LAMBDA object_property :
              IF \E k \in 1..Len(object_property) :
                     validate_property_type(object_property[k], class_property.typeName,
                                            class_property.isNullable) # ""
              THEN [st EXCEPT !.raised = "FAIL"]
              ELSE check_sequence_methods(st, object_property, live, class_property))
    ELSE IF live.get.value.t = "list"
    THEN [st EXCEPT !.raised = "FAIL"]
    ELSE [st EXCEPT !.raised = validate_property_type(live.get.value,
                                                      class_property.typeName,
                                                      class_property.isNullable)]

\* IS1201Test.py:895-913  test_17 after a walk that ended in st: an
\* NMOSTestException gives UNCLEAR, any other exception leaves the test.
test_17(st) ==
    IF st.raised = "FAIL" THEN [raised |-> "", result |-> "UNCLEAR"]
    ELSE IF st.raised # "" THEN [raised |-> st.raised, result |-> ""]
    ELSE IF st.get_sequence_item_metadata.error THEN [raised |-> "", result |-> "FAIL"]
    ELSE IF ~st.get_sequence_item_metadata.checked THEN [raised |-> "", result |-> "UNCLEAR"]
    ELSE [raised |-> "", result |-> "PASS"]

\* A property of the class of a member, as the Class Manager advertises it.
PropertyDescriptor(name, typeName, isSequence, isNullable) ==
    [name |-> name, typeName |-> typeName, isSequence |-> isSequence,
     isNullable |-> isNullable]

ClassProperties ==
    {PropertyDescriptor("p", typeName, isSequence, isNullable) :
        typeName \in DOMAIN primitive_to_python_type,
        isSequence \in BOOLEAN, isNullable \in BOOLEAN}

\* What the device answers: an error or a value.
Failed == [ok |-> FALSE, value |-> JsonNull]
Value(value) == [ok |-> TRUE, value |-> value]

ElementValues == {JsonNull, JsonNumber(1), JsonString("a")}
ScalarValues ==
    {JsonNull, JsonNumber(0), JsonNumber(1), JsonString(""), JsonString("a"),
     JsonBoolean(FALSE), JsonBoolean(TRUE)}

\* The answers of a device for one property: to Get, to GetSequenceItem at
\* each index of the value, and to GetSequenceLength.
Live(get, items, length) == [get |-> get, items |-> items, length |-> length]

LiveScalars ==
    {Live(get, <<>>, Failed) : get \in {Failed} \cup {Value(v) : v \in ScalarValues}}

LiveSequences ==
    UNION {{Live(Value(JsonList(l)), items, length) :
               items \in [1..Len(l) -> {Failed} \cup {Value(v) : v \in ElementValues}],
               length \in {Failed, Value(Len(l)), Value(Len(l) + 1)}} :
           l \in SeqsUpTo(ElementValues, MaxElements)}

\* ------------------------------------------------------------------------
\* State
\* ------------------------------------------------------------------------
VARIABLES
    dev,            \* the device under test
    self,           \* the test suite object
    factory_calls,  \* the nc_object_factory calls of the last operation
    outcome,        \* the last operation and what it raised
    reference,      \* validate_descriptor: the reference descriptor
    descriptor,     \* validate_descriptor: the live descriptor
    diff,           \* validate_descriptor: what the call did
    reference_descriptors,  \* validate_model_definitions: the reference catalog
    descriptors,            \* validate_model_definitions: the live catalog
    results,                \* validate_model_definitions: what the call returned
    expected_results,   \* a search: the oids the local mirror finds
    actual_results,     \* a search: the answer of the device
    search,             \* a search: the check made and what it raised
    class_properties,   \* constraints: the properties of the class of an object
    constraint_check,   \* constraints: the operation made and what it did
    monitored,      \* test_32: the oids of the device model, the root block first
    pc,             \* test_32: the call to make next, for which oid and label
    oids,           \* test_32: the counter of each oid
    error_found,    \* test_32: the local variable error
    logging,        \* IS12Utils: notifications are logged
    notifications,  \* IS12Utils: the notifications logged
    calls_made,     \* the calls test_32 made to IS12Utils, in order
    writes,         \* what is known of each write whose notifications were read
    received,       \* for each oid, the user-label notifications that carried it
    verdict,         \* test_32: the result returned
    sent,  \* an error test: what send_command did
    error_test,  \* an error test: the test run and what do_error_test did
    socket_open,  \* IS12Utils: ncp_websocket.is_open()
    now,  \* time.time()
    socket_test,  \* test_03: timeout, start_time, position, verdict and the polls made
    user_label,  \* the device: the user label of the root block
    label_test,  \* test_16: position, old_user_label, the labels read, and how it ended
    class_property,  \* a property of the class of a member
    live,  \* the answers of the device for that property
    property_check  \* the walk of that property: what it did, and the verdict of test_17

mirrorVars == <<dev, self, factory_calls, outcome>>
descriptorVars == <<reference, descriptor, diff>>
definitionsVars == <<reference_descriptors, descriptors, results>>
searchVars == <<expected_results, actual_results, search>>
constraintVars == <<class_properties, constraint_check>>
notificationVars ==
    <<monitored, pc, oids, error_found, logging, notifications, calls_made, writes,
      received, verdict>>
errorVars == <<sent, error_test>>
socketVars == <<socket_open, now, socket_test>>
labelVars == <<user_label, label_test>>
propertyVars == <<class_property, live, property_check>>
vars ==
    <<mirrorVars, descriptorVars, definitionsVars, searchVars, constraintVars,
      notificationVars, errorVars, socketVars, labelVars, propertyVars>>

\* The variables of the other components.
exceptMirror ==
    <<descriptorVars, definitionsVars, searchVars, constraintVars, notificationVars,
      errorVars, socketVars, labelVars, propertyVars>>
exceptDescriptor ==
    <<mirrorVars, definitionsVars, searchVars, constraintVars, notificationVars,
      errorVars, socketVars, labelVars, propertyVars>>
exceptDefinitions ==
    <<mirrorVars, descriptorVars, searchVars, constraintVars, notificationVars,
      errorVars, socketVars, labelVars, propertyVars>>
exceptSearch ==
    <<mirrorVars, descriptorVars, definitionsVars, constraintVars, notificationVars,
      errorVars, socketVars, labelVars, propertyVars>>
exceptConstraint ==
    <<mirrorVars, descriptorVars, definitionsVars, searchVars, notificationVars,
      errorVars, socketVars, labelVars, propertyVars>>
exceptNotification ==
    <<mirrorVars, descriptorVars, definitionsVars, searchVars, constraintVars,
      errorVars, socketVars, labelVars, propertyVars>>
exceptError ==
    <<mirrorVars, descriptorVars, definitionsVars, searchVars, constraintVars,
      notificationVars, socketVars, labelVars, propertyVars>>
exceptSocket ==
    <<mirrorVars, descriptorVars, definitionsVars, searchVars, constraintVars,
      notificationVars, errorVars, labelVars, propertyVars>>
exceptLabel ==
    <<mirrorVars, descriptorVars, definitionsVars, searchVars, constraintVars,
      notificationVars, errorVars, socketVars, propertyVars>>
exceptProperty ==
    <<mirrorVars, descriptorVars, definitionsVars, searchVars, constraintVars,
      notificationVars, errorVars, socketVars, labelVars>>

NotRun == [raised |-> "not run", label |-> "", key_diff |-> {}]

\* No device is under test.
NoMirror ==
    /\ dev = [members |-> <<>>]
    /\ self = SetUp
    /\ factory_calls = <<>>
    /\ outcome = [op |-> "", raised |-> ""]

\* No descriptor is compared.
NoDescriptor ==
    /\ reference = Scalar("")
    /\ descriptor = Scalar("")
    /\ diff = NotRun

NotCalled == [raised |-> "not called", results |-> <<>>]

\* No catalog is validated.
NoDefinitions ==
    /\ reference_descriptors = EmptyDict
    /\ descriptors = EmptyDict
    /\ results = NotCalled

NotSearched == [op |-> "", raised |-> ""]

\* No search is made.
NoSearch ==
    /\ expected_results = <<>>
    /\ actual_results = NullAnswer
    /\ search = NotSearched

NotChecked ==
    [op |-> "", raised |-> "", value |-> "", test_metadata |-> NoConstraintsChecked,
     result |-> ""]

\* No constraint is checked.
NoConstraint ==
    /\ class_properties = <<>>
    /\ constraint_check = NotChecked

NoVerdict == [result |-> "", named |-> <<>>]

\* test_32 is at its first call, for the oids of monitored.
Test32Begins ==
    /\ pc = [at |-> "update_subscritions", i |-> 1, k |-> 1]
    /\ oids = [oid \in {monitored[i] : i \in 1..Len(monitored)} |-> 0]
    /\ error_found = FALSE
    /\ logging = FALSE
    /\ notifications = <<>>
    /\ calls_made = <<>>
    /\ writes = <<>>
    /\ received = [oid \in {monitored[i] : i \in 1..Len(monitored)} |-> 0]
    /\ verdict = NoVerdict

\* test_32 is not run.
NoNotification ==
    /\ monitored = <<>>
    /\ Test32Begins

NoErrorTest == [test |-> "", expected_status |-> NoExpectedStatus, raised |-> "", result |-> ""]

\* No error test is run.
NoError ==
    /\ sent = CommandSucceeded
    /\ error_test = NoErrorTest

Test03NotRun ==
    [WS_MESSAGE_TIMEOUT |-> 0, start_time |-> 0, at |-> "", result |-> "", polls |-> <<>>]

\* test_03 is not run.
NoSocket ==
    /\ socket_open = FALSE
    /\ now = 0
    /\ socket_test = Test03NotRun

Test16NotRun ==
    [at |-> "", old_user_label |-> "", read |-> <<>>, raised |-> "", result |-> "",
     detail |-> ""]

\* test_16 is not run.
NoLabel ==
    /\ user_label = ""
    /\ label_test = Test16NotRun

PropertyNotChecked == [op |-> "", st |-> NoPropertyChecked, raised |-> "", result |-> ""]

\* No property is checked.
NoProperty ==
    /\ class_property = PropertyDescriptor("", "", FALSE, FALSE)
    /\ live = Live(Failed, <<>>, Failed)
    /\ property_check = PropertyNotChecked

InitMirror ==
    /\ \E family \in 1..Len(Devices) : dev \in Devices[family]
    /\ self = SetUp
    /\ factory_calls = <<>>
    /\ outcome = [op |-> "", raised |-> ""]
    /\ NoDescriptor
    /\ NoDefinitions
    /\ NoSearch
    /\ NoConstraint
    /\ NoNotification
    /\ NoError
    /\ NoSocket
    /\ NoLabel
    /\ NoProperty

\* A test that queries the device model (test_13 and the tests after it).
QueryDeviceModel ==
    \E r \in {query_device_model(self, dev)} :
    /\ self' = r.self
    /\ factory_calls' = r.calls
    /\ outcome' = [op |-> "query_device_model", raised |-> r.raised]
    /\ UNCHANGED <<dev, exceptMirror>>

\* A test that walks the device model (test_05 to test_11).
CheckDeviceModel ==
    \E r \in {check_device_model(self, dev)} :
    /\ self' = r.self
    /\ factory_calls' = r.calls
    /\ outcome' = [op |-> "check_device_model", raised |-> r.raised]
    /\ UNCHANGED <<dev, exceptMirror>>

\* test_08: non-standard classes contain an authority key.
Test08 ==
    \E r \in {test_08(self, dev)} :
    /\ self' = r.self
    /\ factory_calls' = r.calls
    /\ outcome' = [op |-> "test_08", raised |-> r.raised, result |-> r.result]
    /\ UNCHANGED <<dev, exceptMirror>>

\* test_06: roles are unique within a containing block.
Test06 ==
    \E r \in {test_06(self, dev)} :
    /\ self' = r.self
    /\ factory_calls' = r.calls
    /\ outcome' = [op |-> "test_06", raised |-> r.raised, result |-> r.result]
    /\ UNCHANGED <<dev, exceptMirror>>

\* test_07: oids are globally unique.
Test07 ==
    \E r \in {test_07(self, dev)} :
    /\ self' = r.self
    /\ factory_calls' = r.calls
    /\ outcome' = [op |-> "test_07", raised |-> r.raised, result |-> r.result]
    /\ UNCHANGED <<dev, exceptMirror>>

NextMirror == QueryDeviceModel \/ CheckDeviceModel \/ Test06 \/ Test07 \/ Test08

SpecMirror == InitMirror /\ [][NextMirror]_vars

\* validate_descriptor on a reference and a live descriptor.
InitDescriptor ==
    /\ \E pair \in DescriptorPairs :
        /\ reference = pair.reference
        /\ descriptor = pair.descriptor
    /\ diff = NotRun
    /\ NoMirror
    /\ NoDefinitions
    /\ NoSearch
    /\ NoConstraint
    /\ NoNotification
    /\ NoError
    /\ NoSocket
    /\ NoLabel
    /\ NoProperty

ValidateDescriptor ==
    /\ diff = NotRun
    /\ \E raised \in validate_descriptor(reference, descriptor) : diff' = raised
    /\ UNCHANGED <<reference, descriptor, exceptDescriptor>>

NextDescriptor == ValidateDescriptor

SpecDescriptor == InitDescriptor /\ [][NextDescriptor]_vars

\* validate_model_definitions on a reference and a live catalog.
InitDefinitions ==
    /\ reference_descriptors \in ReferenceCatalogs
    /\ descriptors \in LiveCatalogs
    /\ results = NotCalled
    /\ NoMirror
    /\ NoDescriptor
    /\ NoSearch
    /\ NoConstraint
    /\ NoNotification
    /\ NoError
    /\ NoSocket
    /\ NoLabel
    /\ NoProperty

ValidateModelDefinitions ==
    /\ results = NotCalled
    /\ \E returned \in validate_model_definitions(descriptors, reference_descriptors) :
        results' = returned
    /\ UNCHANGED <<reference_descriptors, descriptors, exceptDefinitions>>

NextDefinitions == ValidateModelDefinitions

SpecDefinitions == InitDefinitions /\ [][NextDefinitions]_vars

\* One search of a block: the local result and the answer of the device.
InitSearch ==
    /\ expected_results \in ExpectedResults
    /\ actual_results \in ActualResults
    /\ search = NotSearched
    /\ NoMirror
    /\ NoDescriptor
    /\ NoDefinitions
    /\ NoConstraint
    /\ NoNotification
    /\ NoError
    /\ NoSocket
    /\ NoLabel
    /\ NoProperty

\* One search condition of do_get_member_descriptors_test (test_19).
DoGetMemberDescriptorsTest ==
    /\ search = NotSearched
    /\ search' = [op |-> "get_member_descriptors",
                  raised |-> get_member_descriptors_check(expected_results, actual_results)]
    /\ UNCHANGED <<expected_results, actual_results, exceptSearch>>

\* One query of do_find_member_by_role_test (test_21).
DoFindMemberByRoleTest ==
    /\ search = NotSearched
    /\ search' = [op |-> "find_members_by_role",
                  raised |-> find_members_check(expected_results, actual_results)]
    /\ UNCHANGED <<expected_results, actual_results, exceptSearch>>

\* One query of do_find_members_by_class_id_test (test_22).
DoFindMembersByClassIdTest ==
    /\ search = NotSearched
    /\ search' = [op |-> "find_members_by_class_id",
                  raised |-> find_members_check(expected_results, actual_results)]
    /\ UNCHANGED <<expected_results, actual_results, exceptSearch>>

\* One role path of do_find_member_by_path_test (test_20): the mirror
\* resolves a path of its own to one node.
DoFindMemberByPathTest ==
    /\ search = NotSearched
    /\ Len(expected_results) = 1
    /\ search' = [op |-> "find_members_by_path",
                  raised |-> find_member_by_path_check(expected_results[1], actual_results)]
    /\ UNCHANGED <<expected_results, actual_results, exceptSearch>>

NextSearch ==
    \/ DoGetMemberDescriptorsTest
    \/ DoFindMemberByRoleTest
    \/ DoFindMembersByClassIdTest
    \/ DoFindMemberByPathTest

SpecSearch == InitSearch /\ [][NextSearch]_vars

\* The properties of the class of one object and their constraints.
InitConstraint ==
    /\ class_properties \in SingleProperties \cup SeveralProperties
    /\ constraint_check = NotChecked
    /\ NoMirror
    /\ NoDescriptor
    /\ NoDefinitions
    /\ NoSearch
    /\ NoNotification
    /\ NoError
    /\ NoSocket
    /\ NoLabel
    /\ NoProperty

\* resolve_datatype on the type of the first property.
ResolveDatatype ==
    /\ constraint_check = NotChecked
    /\ Len(class_properties) > 0
    /\ \E r \in {resolve_datatype(class_properties[1].typeName, DatatypeCatalog)} :
        constraint_check' = [NotChecked EXCEPT !.op = "resolve_datatype",
                                               !.raised = r.raised, !.value = r.value]
    /\ UNCHANGED <<class_properties, exceptConstraint>>

\* check_constraint on the constraints of the first property.
CheckConstraint ==
    /\ constraint_check = NotChecked
    /\ Len(class_properties) > 0
    /\ class_properties[1].constraints.t # "null"
    /\ \E r \in {check_constraint(class_properties[1].constraints.c,
                                  class_properties[1].typeName, DatatypeCatalog,
                                  class_properties[1].isSequence,
                                  NoConstraintsChecked, class_properties[1].name)} :
        constraint_check' = [NotChecked EXCEPT !.op = "check_constraint",
                                               !.raised = r.raised,
                                               !.test_metadata = r.test_metadata]
    /\ UNCHANGED <<class_properties, exceptConstraint>>

\* test_34 on an object of the class.
Test34 ==
    /\ constraint_check = NotChecked
    /\ \E r \in {test_34(class_properties, DatatypeCatalog)} :
        constraint_check' = [NotChecked EXCEPT !.op = "test_34", !.raised = r.raised,
                                               !.test_metadata = r.test_metadata,
                                               !.result = r.result]
    /\ UNCHANGED <<class_properties, exceptConstraint>>

NextConstraint == ResolveDatatype \/ CheckConstraint \/ Test34

SpecConstraint == InitConstraint /\ [][NextConstraint]_vars

\* test_32 on a device model of one or two objects.
InitNotification ==
    /\ monitored \in MonitoredOids
    /\ Test32Begins
    /\ NoMirror
    /\ NoDescriptor
    /\ NoDefinitions
    /\ NoSearch
    /\ NoConstraint
    /\ NoError
    /\ NoSocket
    /\ NoLabel
    /\ NoProperty

CallMade(name, oid, label) == [call |-> name, oid |-> oid, label |-> label]
CurrentOid == monitored[pc.i]
CurrentLabel == Labels[pc.k]

\* IS1201Test.py:1373  self.is12_utils.update_subscritions(test, oids)
UpdateSubscriptions ==
    /\ pc.at = "update_subscritions"
    /\ Len(monitored) > 0
    /\ pc' = [pc EXCEPT !.at = "get_property"]
    /\ calls_made' = Append(calls_made, CallMade("update_subscritions", 0, ""))
    /\ UNCHANGED <<monitored, oids, error_found, logging, notifications, writes,
                   received, verdict, exceptNotification>>

\* IS1201Test.py:1380  the label of the oid is read before the probe.
GetUserLabel ==
    /\ pc.at = "get_property"
    /\ pc' = [pc EXCEPT !.at = "start_logging_notifications"]
    /\ calls_made' = Append(calls_made, CallMade("get_property", CurrentOid, ""))
    /\ UNCHANGED <<monitored, oids, error_found, logging, notifications, writes,
                   received, verdict, exceptNotification>>

\* IS1201Test.py:1385  start_logging_notifications opens a capture window.
StartLoggingNotifications ==
    /\ pc.at = "start_logging_notifications"
    /\ logging' = TRUE
    /\ notifications' = <<>>
    /\ pc' = [pc EXCEPT !.at = "set_property"]
    /\ calls_made' = Append(calls_made,
                            CallMade("start_logging_notifications", CurrentOid, CurrentLabel))
    /\ UNCHANGED <<monitored, oids, error_found, writes, received, verdict,
                   exceptNotification>>

\* IS1201Test.py:1386  set_property writes the label; when the device
\* answers an error it raises and test_32 ends.
SetProperty ==
    /\ pc.at = "set_property"
    /\ calls_made' = Append(calls_made, CallMade("set_property", CurrentOid, CurrentLabel))
    /\ \E answered \in BOOLEAN :
        IF answered
        THEN pc' = [pc EXCEPT !.at = "stop_logging_notifications"] /\ UNCHANGED verdict
        ELSE pc' = [pc EXCEPT !.at = "raised"]
             /\ verdict' = [result |-> "raised", named |-> <<>>]
    /\ UNCHANGED <<monitored, oids, error_found, logging, notifications, writes,
                   received, exceptNotification>>

\* The device sends a notification after the write; it is logged while the
\* capture window is open.
Notify ==
    /\ pc.at = "stop_logging_notifications"
    /\ logging
    /\ Len(notifications) < MaxNotifications
    /\ \E notification \in NotificationsOfWrite(CurrentOid, CurrentLabel,
                                                DOMAIN oids \ {CurrentOid}) :
        /\ notifications' = Append(notifications, notification)
        /\ received' = IF /\ notification.oid \in DOMAIN received
                          /\ notification.propertyId = USER_LABEL
                       THEN [received EXCEPT ![notification.oid] = @ + 1]
                       ELSE received
    /\ UNCHANGED <<monitored, pc, oids, error_found, logging, calls_made, writes,
                   verdict, exceptNotification>>

\* IS1201Test.py:1387  stop_logging_notifications closes the capture window.
StopLoggingNotifications ==
    /\ pc.at = "stop_logging_notifications"
    /\ logging' = FALSE
    /\ pc' = [pc EXCEPT !.at = "get_notifications"]
    /\ calls_made' = Append(calls_made,
                            CallMade("stop_logging_notifications", CurrentOid, CurrentLabel))
    /\ UNCHANGED <<monitored, oids, error_found, notifications, writes, received,
                   verdict, exceptNotification>>

\* IS1201Test.py:1389-1414  the notifications of the write are read and
\* checked.
GetNotifications ==
    /\ pc.at = "get_notifications"
    /\ \E st \in {check_notifications([oids |-> oids, error |-> error_found],
                                      notifications, 1, CurrentOid, CurrentLabel)} :
        /\ oids' = st.oids
        /\ error_found' = st.error
    /\ writes' = Append(writes, WriteRecord(CurrentOid, CurrentLabel, notifications))
    /\ notifications' = <<>>
    /\ pc' = AfterWrite(pc, Len(monitored))
    /\ calls_made' = Append(calls_made, CallMade("get_notifications", CurrentOid, CurrentLabel))
    /\ UNCHANGED <<monitored, logging, received, verdict, exceptNotification>>

\* IS1201Test.py:1416-1426
ReturnVerdict ==
    /\ pc.at = "verdict"
    /\ verdict' = test_32_verdict(oids, error_found)
    /\ pc' = [pc EXCEPT !.at = "done"]
    /\ UNCHANGED <<monitored, oids, error_found, logging, notifications, calls_made,
                   writes, received, exceptNotification>>

NextNotification ==
    \/ UpdateSubscriptions
    \/ GetUserLabel
    \/ StartLoggingNotifications
    \/ SetProperty
    \/ Notify
    \/ StopLoggingNotifications
    \/ GetNotifications
    \/ ReturnVerdict

SpecNotification == InitNotification /\ [][NextNotification]_vars

\* An error test on a device that answers its command in any way.
InitError ==
    /\ sent \in CommandOutcomes
    /\ error_test = NoErrorTest
    /\ NoMirror
    /\ NoDescriptor
    /\ NoDefinitions
    /\ NoSearch
    /\ NoConstraint
    /\ NoNotification
    /\ NoSocket
    /\ NoLabel
    /\ NoProperty

ErrorTestRun(test, expected_status, r) ==
    [test |-> test, expected_status |-> expected_status,
     raised |-> r.raised, result |-> r.result]

\* IS1201Test.py:1206-1262  test_23 to test_26: no status is expected.
TestProtocolError ==
    /\ error_test = NoErrorTest
    /\ \E test \in ProtocolErrorTests :
        error_test' = ErrorTestRun(test, NoExpectedStatus,
                                   do_error_test(sent, NoExpectedStatus))
    /\ UNCHANGED <<sent, exceptError>>

\* IS1201Test.py:1264-1355  test_27 to test_31: one status is expected.
TestMethodError ==
    /\ error_test = NoErrorTest
    /\ \E test \in DOMAIN ExpectedStatusOfTest :
        \E expected_status \in {ExpectedStatus(ExpectedStatusOfTest[test])} :
            error_test' = ErrorTestRun(test, expected_status,
                                       do_error_test(sent, expected_status))
    /\ UNCHANGED <<sent, exceptError>>

NextError ==
    \/ TestProtocolError
    \/ TestMethodError

SpecError == InitError /\ [][NextError]_vars

\* test_03 after create_ncp_socket, with any timeout configured; the device
\* may have closed the socket already.
InitSocket ==
    /\ socket_open \in BOOLEAN
    /\ now = 0
    /\ \E timeout \in 0..MaxTimeout :
        socket_test = [WS_MESSAGE_TIMEOUT |-> timeout, start_time |-> now, at |-> "poll",
                       result |-> "", polls |-> <<>>]
    /\ NoMirror
    /\ NoDescriptor
    /\ NoDefinitions
    /\ NoSearch
    /\ NoConstraint
    /\ NoNotification
    /\ NoError
    /\ NoLabel
    /\ NoProperty

\* IS1201Test.py:323-325, 328  the test of the loop and of the socket.
Poll ==
    /\ socket_test.at = "poll"
    /\ \E r \in {test_03_poll(socket_open, now, socket_test.start_time,
                              socket_test.WS_MESSAGE_TIMEOUT)} :
        socket_test' =
            [socket_test EXCEPT
                !.at = IF r = "sleep" THEN "sleep" ELSE "done",
                !.result = IF r = "sleep" THEN "" ELSE r,
                !.polls = IF now < socket_test.start_time + socket_test.WS_MESSAGE_TIMEOUT
                          THEN Append(@, [time |-> now, open |-> socket_open])
                          ELSE @]
    /\ UNCHANGED <<socket_open, now, exceptSocket>>

\* IS1201Test.py:326  time.sleep(0.2) returns after 0.2 s or more.
Sleep ==
    /\ socket_test.at = "sleep"
    /\ \E slept \in 1..MaxSleep : now' = now + slept
    /\ socket_test' = [socket_test EXCEPT !.at = "poll"]
    /\ UNCHANGED <<socket_open, exceptSocket>>

\* The device closes the socket while test_03 runs.
CloseSocket ==
    /\ socket_test.at \in {"poll", "sleep"}
    /\ socket_open
    /\ socket_open' = FALSE
    /\ UNCHANGED <<now, socket_test, exceptSocket>>

NextSocket ==
    \/ Poll
    \/ Sleep
    \/ CloseSocket

\* test_03 runs on: its steps are taken when they can be.
SpecSocket ==
    InitSocket /\ [][NextSocket]_vars /\ WF_vars(Poll) /\ WF_vars(Sleep)

\* test_16 on a device that holds any user label.
InitLabel ==
    /\ user_label \in UserLabels
    /\ label_test = [Test16NotRun EXCEPT !.at = "get_old"]
    /\ NoMirror
    /\ NoDescriptor
    /\ NoDefinitions
    /\ NoSearch
    /\ NoConstraint
    /\ NoNotification
    /\ NoError
    /\ NoSocket
    /\ NoProperty

Test16Raises == [label_test EXCEPT !.at = "done", !.raised = "NMOSTestException"]

\* IS1201Test.py:867  old_user_label = get_property(...)
GetOldUserLabel ==
    /\ label_test.at = "get_old"
    /\ \/ label_test' = [label_test EXCEPT !.at = "set_new", !.old_user_label = user_label,
                                           !.read = Append(@, user_label)]
       \/ label_test' = Test16Raises
    /\ UNCHANGED <<user_label, exceptLabel>>

\* IS1201Test.py:872  set_property(..., new_user_label): the device stores
\* the label, keeps the one it has or stores another one, or answers an
\* error.
SetNewUserLabel ==
    /\ label_test.at = "set_new"
    /\ \/ /\ user_label' \in UserLabels
          /\ label_test' = [label_test EXCEPT !.at = "check_new"]
       \/ /\ label_test' = Test16Raises
          /\ UNCHANGED user_label
    /\ UNCHANGED exceptLabel

\* IS1201Test.py:875-880
CheckNewUserLabel ==
    /\ label_test.at = "check_new"
    /\ \/ \E failure \in {check_label(user_label, NMOS_TESTING_TOOL,
                                      label_test.old_user_label)} :
            label_test' = [label_test EXCEPT
                              !.read = Append(@, user_label),
                              !.at = IF failure = "" THEN "set_old" ELSE "done",
                              !.result = IF failure = "" THEN "" ELSE "FAIL",
                              !.detail = failure]
       \/ label_test' = Test16Raises
    /\ UNCHANGED <<user_label, exceptLabel>>

\* IS1201Test.py:883  set_property(..., old_user_label)
SetOldUserLabel ==
    /\ label_test.at = "set_old"
    /\ \/ /\ user_label' \in UserLabels
          /\ label_test' = [label_test EXCEPT !.at = "check_old"]
       \/ /\ label_test' = Test16Raises
          /\ UNCHANGED user_label
    /\ UNCHANGED exceptLabel

\* IS1201Test.py:886-893
CheckOldUserLabel ==
    /\ label_test.at = "check_old"
    /\ \/ \E failure \in {check_label(user_label, label_test.old_user_label,
                                      NMOS_TESTING_TOOL)} :
            label_test' = [label_test EXCEPT
                              !.read = Append(@, user_label),
                              !.at = "done",
                              !.result = IF failure = "" THEN "PASS" ELSE "FAIL",
                              !.detail = failure]
       \/ label_test' = Test16Raises
    /\ UNCHANGED <<user_label, exceptLabel>>

NextLabel ==
    \/ GetOldUserLabel
    \/ SetNewUserLabel
    \/ CheckNewUserLabel
    \/ SetOldUserLabel
    \/ CheckOldUserLabel

SpecLabel == InitLabel /\ [][NextLabel]_vars

\* The walk of one property of a member whose class is advertised.
InitProperty ==
    /\ class_property \in ClassProperties
    /\ live \in LiveScalars \cup LiveSequences
    /\ property_check = PropertyNotChecked
    /\ NoMirror
    /\ NoDescriptor
    /\ NoDefinitions
    /\ NoSearch
    /\ NoConstraint
    /\ NoNotification
    /\ NoError
    /\ NoSocket
    /\ NoLabel

\* IS1201Test.py:435-463  the walk reads the property.
CheckObjectProperties ==
    /\ property_check.op = ""
    /\ \E st \in {check_object_property(NoPropertyChecked, class_property, live)} :
        property_check' = [op |-> "check_object_properties", st |-> st,
                           raised |-> st.raised, result |-> ""]
    /\ UNCHANGED <<class_property, live, exceptProperty>>

\* IS1201Test.py:895-913  test_17 walks the device model and gives its
\* verdict.
Test17 ==
    /\ property_check.op = ""
    /\ \E st \in {check_object_property(NoPropertyChecked, class_property, live)} :
        \E r \in {test_17(st)} :
            property_check' = [op |-> "test_17", st |-> st,
                               raised |-> r.raised, result |-> r.result]
    /\ UNCHANGED <<class_property, live, exceptProperty>>

NextProperty ==
    \/ CheckObjectProperties
    \/ Test17

SpecProperty == InitProperty /\ [][NextProperty]_vars

\* ========================================================================
\* Properties of the mirror and of the walk (SpecMirror)
\* ========================================================================
\* The blocks of a mirror tree: the root and every block under it.
RECURSIVE BlocksOf(_)
BlocksOf(node) ==
    IF node.kind # "NcBlock"
    THEN {}
    ELSE {node} \cup UNION {BlocksOf(node.child_objects[i]) :
                               i \in 1..Len(node.child_objects)}

\* The members of a mirror tree: a block of the tree and a position in its
\* member descriptors.
MembersOf(node) ==
    UNION {{<<b, i>> : i \in 1..Len(b.member_descriptors)} : b \in BlocksOf(node)}

DescriptorAt(member) == member[1].member_descriptors[member[2]]

SameMember(m1, m2) == m1[1].oid = m2[1].oid /\ m1[2] = m2[2]

MembersUnavailableAt(oid) == Not(get_property(MembersAnswer(dev, oid)))

\* C1: nc_object_factory returns no node for a block whose member list
\* cannot be fetched or is empty, and then builds none of its members; for
\* the root block query_device_model then raises FAIL and stores no model.
C1_NoMembersNoBlock ==
    /\ \A i \in 1..Len(factory_calls) :
          (/\ IsBlockClassId(factory_calls[i].class_id)
           /\ MembersUnavailableAt(factory_calls[i].oid))
          => /\ ~factory_calls[i].returned
             /\ \A j \in 1..Len(factory_calls) :
                   factory_calls[j].caller # factory_calls[i].oid
    /\ (outcome.op = "query_device_model" /\ MembersUnavailableAt(ROOT_BLOCK_OID))
          => outcome.raised = "FAIL" /\ self.device_model = NoneNode

\* The root block answered an empty member list, and a nested block did.
C1_Witness ==
    /\ outcome.op = "query_device_model"
    /\ outcome.raised = "FAIL"
    /\ dev.members[ROOT_BLOCK_OID] = Answer(<<>>)
    /\ Len(factory_calls) = 1

C1_WitnessNested ==
    /\ outcome.raised = ""
    /\ \E i \in 1..Len(factory_calls) :
          /\ factory_calls[i].caller = ROOT_BLOCK_OID
          /\ IsBlockClassId(factory_calls[i].class_id)
          /\ ~factory_calls[i].returned
          /\ dev.members[factory_calls[i].oid] = Answer(<<>>)

\* C2: a member whose build yields no node is left out of the child objects
\* of its block, the other members are still built, and the omission is
\* recorded in device_model_metadata.
C2_OmissionIsRecorded ==
    /\ \A i \in 1..Len(factory_calls) :
          (factory_calls[i].caller # 0 /\ ~factory_calls[i].returned)
          => self.device_model_metadata.error
    /\ \A member \in MembersOf(self.device_model) :
          \/ \E k \in 1..Len(member[1].child_objects) :
                /\ member[1].child_objects[k].oid = DescriptorAt(member).oid
                /\ member[1].child_objects[k].role = DescriptorAt(member).role
                /\ member[1].child_objects[k].class_id = DescriptorAt(member).classId
          \/ \E i \in 1..Len(factory_calls) :
                /\ factory_calls[i].caller = member[1].oid
                /\ factory_calls[i].oid = DescriptorAt(member).oid
                /\ ~factory_calls[i].returned
          \/ factory_calls = <<>>

\* The oids of the nodes of a mirror tree, the root block included: a set
\* of <<place, oid>> so that equal oids of two nodes stay two.
NodeOids(node) ==
    {<<<<0, 0>>, node.oid>>}
    \cup {<<<<member[1].oid, member[2]>>, DescriptorAt(member).oid>> :
             member \in MembersOf(node)}

MemberOids(node) ==
    {<<<<member[1].oid, member[2]>>, DescriptorAt(member).oid>> :
        member \in MembersOf(node)}

Repeats(placed) ==
    \E x \in placed : \E y \in placed : x[1] # y[1] /\ x[2] = y[2]

\* The member descriptors the walk has to check: those of every block, as
\* often as the block occurs in the tree.
RECURSIVE CountMembers(_)
RECURSIVE CountMembersOfChildren(_, _)
CountMembersOfChildren(child_objects, i) ==
    IF i > Len(child_objects)
    THEN 0
    ELSE CountMembers(child_objects[i]) + CountMembersOfChildren(child_objects, i + 1)

CountMembers(node) ==
    IF node.kind # "NcBlock"
    THEN 0
    ELSE Len(node.member_descriptors) + CountMembersOfChildren(node.child_objects, 1)

\* C3: after the walk unique_oids_error is set exactly when two nodes of
\* the tree, the root block included, have the same oid, and a repeated oid
\* does not stop the walk.
C3_UniqueOidsOfAllNodes ==
    self.walk = "completed"
    => /\ self.unique_oids_error <=> Repeats(NodeOids(self.device_model))
       /\ Len(self.checked_members) = CountMembers(self.device_model)

\* What the walk does decide: a repeated oid among the member descriptors.
C3_UniqueOidsOfMembers ==
    self.walk = "completed"
    => /\ self.unique_oids_error <=> Repeats(MemberOids(self.device_model))
       /\ Len(self.checked_members) = CountMembers(self.device_model)

\* C4: after the walk unique_roles_error is set exactly when some block has
\* two member descriptors with the same role; the same role in two blocks
\* does not set it.
C4_UniqueRolesPerBlock ==
    self.walk = "completed"
    => (self.unique_roles_error
        <=> \E b \in BlocksOf(self.device_model) :
               \E i, j \in 1..Len(b.member_descriptors) :
                  i # j /\ b.member_descriptors[i].role = b.member_descriptors[j].role)

\* The walk ended without the flag on a tree where two blocks each have a
\* member with the same role.
C4_Witness ==
    /\ self.walk = "completed"
    /\ ~self.unique_roles_error
    /\ \E m1, m2 \in MembersOf(self.device_model) :
          /\ m1[1].oid # m2[1].oid
          /\ DescriptorAt(m1).role = DescriptorAt(m2).role

\* The walk ended with the flag set.
C4_WitnessRepeated ==
    self.walk = "completed" /\ self.unique_roles_error

\* C5: after the walk managers_are_singletons_error is set whenever two
\* members of the tree, in one block or in two, are managers of the same
\* base class, and managers_members_root_block_error is set whenever a
\* manager is not owned by the root block.
C5_ManagersAreSingletonsInRoot ==
    self.walk = "completed"
    => /\ (\E m1, m2 \in MembersOf(self.device_model) :
              /\ ~SameMember(m1, m2)
              /\ is_manager(DescriptorAt(m1).classId)
              /\ is_manager(DescriptorAt(m2).classId)
              /\ get_base_class_id(DescriptorAt(m1).classId)
                 = get_base_class_id(DescriptorAt(m2).classId))
          => self.managers_are_singletons_error
       /\ (\E m \in MembersOf(self.device_model) :
              /\ is_manager(DescriptorAt(m).classId)
              /\ DescriptorAt(m).owner # ROOT_BLOCK_OID)
          => self.managers_members_root_block_error

\* What the walk does decide: two managers of the same base class in one block.
C5_ManagersAreSingletonsPerBlock ==
    self.walk = "completed"
    => /\ self.managers_are_singletons_error
          <=> \E b \in BlocksOf(self.device_model) :
                 \E i, j \in 1..Len(b.member_descriptors) :
                    /\ i # j
                    /\ is_manager(b.member_descriptors[i].classId)
                    /\ is_manager(b.member_descriptors[j].classId)
                    /\ get_base_class_id(b.member_descriptors[i].classId)
                       = get_base_class_id(b.member_descriptors[j].classId)
       /\ self.managers_members_root_block_error
          <=> \E m \in MembersOf(self.device_model) :
                 /\ is_manager(DescriptorAt(m).classId)
                 /\ DescriptorAt(m).owner # ROOT_BLOCK_OID

\* The members of the tree whose class is no standard class and has no
\* authority key, and those whose class has one.
MissingAuthorityKey(m) ==
    /\ JoinDots(DescriptorAt(m).classId) \notin reference_class_keys
    /\ ~is_non_standard_class(DescriptorAt(m).classId)

\* C11: after a completed walk test_08 returns FAIL iff some member of the
\* tree has a class id that is neither a key of the reference class catalog
\* nor carries the authority key; otherwise UNCLEAR when no member has a
\* non-standard class id, and PASS when at least one has.
C11_Test08Verdict ==
    (outcome.op = "test_08" /\ self.walk = "completed") =>
        outcome.result =
            IF \E m \in MembersOf(self.device_model) : MissingAuthorityKey(m)
            THEN "FAIL"
            ELSE IF \E m \in MembersOf(self.device_model) :
                        is_non_standard_class(DescriptorAt(m).classId)
            THEN "PASS"
            ELSE "UNCLEAR"

C11_Witness ==
    /\ outcome.op = "test_08"
    /\ self.walk = "completed"
    /\ outcome.result = "PASS"
    /\ \E m \in MembersOf(self.device_model) :
        /\ is_non_standard_class(DescriptorAt(m).classId)
        /\ m[1].oid = NestedBlockOid

C11_WitnessFail ==
    /\ outcome.op = "test_08"
    /\ self.walk = "completed"
    /\ outcome.result = "FAIL"
    /\ \E m \in MembersOf(self.device_model) : is_non_standard_class(DescriptorAt(m).classId)

\* ========================================================================
\* Properties of the structural diff (SpecDescriptor)
\* ========================================================================
Validated == diff # NotRun
Accepted == diff.raised = ""
BothMappings == reference.t = "dict" /\ descriptor.t = "dict"
MissingKeys == DOMAIN reference.d \ DOMAIN descriptor.d
AdditionalKeys == DOMAIN descriptor.d \ DOMAIN reference.d

\* C6: when the key sets of a mapping-typed reference and of the live
\* descriptor differ, validate_descriptor raises a failure that carries the
\* symmetric difference of the key sets, labelled "Missing keys" when keys
\* of the reference are absent from the live descriptor and "Additional
\* keys" when the live descriptor has keys the reference lacks.
C6_KeyDifferenceLabelled ==
    (Validated /\ BothMappings /\ DOMAIN reference.d # DOMAIN descriptor.d) =>
        /\ diff.raised = "FAIL"
        /\ diff.key_diff = MissingKeys \cup AdditionalKeys
        /\ MissingKeys # {} => diff.label = "Missing keys "
        /\ AdditionalKeys # {} => diff.label = "Additional keys "

\* The part of C6 that the code keeps: the failure and its set of keys; the
\* label is "Missing keys" only when no key is additional.
C6_KeyDifferenceRaised ==
    (Validated /\ BothMappings /\ DOMAIN reference.d # DOMAIN descriptor.d) =>
        /\ diff.raised = "FAIL"
        /\ diff.key_diff = MissingKeys \cup AdditionalKeys
        /\ diff.label = IF AdditionalKeys = {} THEN "Missing keys " ELSE "Additional keys "

\* The lists that have the items of list in another order.
Reorderings(list) ==
    {[i \in 1..Len(list) |-> list[p[i]]] :
        p \in {q \in [1..Len(list) -> 1..Len(list)] :
                  \A i, j \in 1..Len(list) : q[i] = q[j] => i = j}}

ListOfObjects(value) ==
    /\ value.t = "list"
    /\ \A i \in 1..Len(value.l) : value.l[i].t = "dict" /\ "name" \in DOMAIN value.l[i].d

ListField ==
    /\ BothMappings
    /\ DOMAIN reference.d = {"properties"}
    /\ DOMAIN descriptor.d = {"properties"}
    /\ ListOfObjects(reference.d["properties"])
    /\ ListOfObjects(descriptor.d["properties"])
    /\ Len(reference.d["properties"].l) > 0

DistinctNames(value) ==
    \A i, j \in 1..Len(value.l) : value.l[i].d["name"] = value.l[j].d["name"] => i = j

\* C7: for a field whose reference value is a non-empty list of objects
\* (here one that repeats no name, as the lists of the standard do), any
\* permutation of the live list or of the reference list gives the same
\* accept/reject outcome.
C7_OrderOfItemsIrrelevant ==
    (Validated /\ ListField /\ DistinctNames(reference.d["properties"])) =>
        \A r \in Reorderings(reference.d["properties"].l),
           d \in Reorderings(descriptor.d["properties"].l) :
            (validate_descriptor(Dict([properties |-> List(r)]),
                                 Dict([properties |-> List(d)])) = {Returned})
                <=> Accepted

\* The order is irrelevant when no list repeats a name.
C7_OrderOfDistinctNamesIrrelevant ==
    (/\ Validated /\ ListField
     /\ DistinctNames(reference.d["properties"])
     /\ DistinctNames(descriptor.d["properties"])) =>
        \A r \in Reorderings(reference.d["properties"].l),
           d \in Reorderings(descriptor.d["properties"].l) :
            (validate_descriptor(Dict([properties |-> List(r)]),
                                 Dict([properties |-> List(d)])) = {Returned})
                <=> Accepted

\* The live descriptor has the keys of the reference and its values for
\* every key but 'description'.
DiffersOnlyInDescription ==
    /\ BothMappings
    /\ DOMAIN reference.d = DOMAIN descriptor.d
    /\ "description" \in DOMAIN reference.d
    /\ \A key \in DOMAIN reference.d \ {"description"} :
        reference.d[key] = descriptor.d[key]
    /\ reference.d["description"] # descriptor.d["description"]

\* C8: a live descriptor that differs from the reference only in a
\* 'description' whose reference value is not a mapping is accepted; a
\* 'description' whose reference value is a mapping is compared like any
\* other field, so a live descriptor that differs in it is not accepted.
C8_DescriptionExemptUnlessMapping ==
    (Validated /\ DiffersOnlyInDescription) =>
        (Accepted <=> reference.d["description"].t # "dict")

C8_Witness ==
    /\ Validated /\ DiffersOnlyInDescription
    /\ reference.d["description"].t = "scalar"
    /\ descriptor.d["description"].t = "scalar"
    /\ Accepted

C8_WitnessMapping ==
    /\ Validated /\ DiffersOnlyInDescription
    /\ reference.d["description"].t = "dict"
    /\ descriptor.d["description"].t = "dict"
    /\ diff.raised = "FAIL"

\* ========================================================================
\* Properties of the per-key model validation (SpecDefinitions)
\* ========================================================================
Called == results # NotCalled
ResultOf(returned, key) ==
    {returned.results[i].state : i \in {j \in 1..Len(returned.results) :
                                           returned.results[j].key = key}}

\* The live descriptor has the keys of the reference and its values, but for
\* the description.
Conformant(key) ==
    /\ descriptors[key].conforms
    /\ DOMAIN descriptors[key].value.d = DOMAIN reference_descriptors[key].d
    /\ \A field \in DOMAIN reference_descriptors[key].d \ {"description"} :
        descriptors[key].value.d[field] = reference_descriptors[key].d[field]

\* C9: validate_model_definitions returns exactly one verdict per key of the
\* reference catalog, in ascending key order, and none for a key of the live
\* catalog only; the verdict is UNCLEAR exactly when the live catalog has no
\* entry for the key, otherwise PASS when the live descriptor passes the
\* schema validation and the structural diff, and FAIL when either fails.
C9_OneVerdictPerReferenceKey ==
    Called =>
        /\ results.raised = ""
        /\ Len(results.results) = Cardinality(DOMAIN reference_descriptors)
        /\ \A key \in DOMAIN reference_descriptors :
            ResultOf(results, key) =
                IF key \notin DOMAIN descriptors THEN {"UNCLEAR"}
                ELSE IF Conformant(key) THEN {"PASS"} ELSE {"FAIL"}
        /\ \A i, j \in 1..Len(results.results) :
            i < j => Rank(results.results[i].key) < Rank(results.results[j].key)

C9_Witness ==
    /\ Called
    /\ \E absent, good, bad \in DOMAIN reference_descriptors :
        /\ ResultOf(results, absent) = {"UNCLEAR"}
        /\ ResultOf(results, good) = {"PASS"}
        /\ ResultOf(results, bad) = {"FAIL"}
    /\ LiveOnlyKey \in DOMAIN descriptors

\* The live catalog with the reference's descriptor for one key.
Corrected(key) ==
    [descriptors EXCEPT ![key] = [value |-> reference_descriptors[key], conforms |-> TRUE]]

\* C10: a failure on one reference key changes the verdict of no other key:
\* every other key has the verdict it has when the failing key's live
\* descriptor is correct, the keys sorted after the failing one included.
C10_FailureLeavesOtherVerdicts ==
    Called =>
        \A failing \in DOMAIN reference_descriptors :
            ResultOf(results, failing) = {"FAIL"} =>
                \A returned \in validate_model_definitions(Corrected(failing),
                                                           reference_descriptors) :
                    \A key \in DOMAIN reference_descriptors \ {failing} :
                        /\ ResultOf(results, key) # {}
                        /\ ResultOf(results, key) = ResultOf(returned, key)

C10_Witness ==
    /\ Called
    /\ Len(results.results) >= 3
    /\ results.results[1].state = "FAIL"
    /\ results.results[2].state = "PASS"
    /\ results.results[3].state = "FAIL"

\* ========================================================================
\* Properties of the searches (SpecSearch)
\* ========================================================================
Range(list) == {list[i] : i \in 1..Len(list)}
Distinct(list) == \A i, j \in 1..Len(list) : list[i] = list[j] => i = j
ParityChecked ==
    search.op \in {"get_member_descriptors", "find_members_by_role", "find_members_by_class_id"}

\* The device answered a list of member descriptors that conform to their
\* schema, and the mirror found no node twice.
WellFormedAnswer ==
    /\ actual_results.ok /\ ~actual_results.null
    /\ \A i \in 1..Len(actual_results.value) : actual_results.value[i].conforms
    /\ Distinct(expected_results)

\* C12: for the role search, the class-id search and the member-descriptor
\* listing, the parity check lets the test continue iff the set of oids the
\* device returned equals the set of oids the mirror search returned.
C12_ParityOfOidSets ==
    (ParityChecked /\ WellFormedAnswer) =>
        (search.raised = "" <=> Range(Oids(actual_results.value)) = Range(expected_results))

\* What the check does decide: the two lists have the same length and every
\* oid of the answer is one of the mirror's.
C12_ParityOfLengthAndInclusion ==
    (ParityChecked /\ WellFormedAnswer) =>
        (search.raised = ""
            <=> /\ Len(actual_results.value) = Len(expected_results)
                /\ Range(Oids(actual_results.value)) \subseteq Range(expected_results))

\* C13: do_find_member_by_path_test accepts the answer of the device iff it
\* is a list of exactly one member descriptor whose oid is the oid of the
\* node the mirror resolves for the path.
C13_PathResolvesToOneMember ==
    search.op = "find_members_by_path" =>
        (search.raised = ""
            <=> /\ actual_results.ok /\ ~actual_results.null
                /\ Len(actual_results.value) = 1
                /\ actual_results.value[1].conforms
                /\ actual_results.value[1].oid = expected_results[1])

C13_Witness ==
    /\ search.op = "find_members_by_path"
    /\ search.raised = "FAIL"
    /\ actual_results.ok /\ ~actual_results.null
    /\ Len(actual_results.value) = 2
    /\ \A i \in 1..2 : actual_results.value[i].conforms
    /\ actual_results.value[1].oid = expected_results[1]

C13_WitnessAccepted ==
    /\ search.op = "find_members_by_path"
    /\ search.raised = ""

\* ========================================================================
\* Properties of the constraint checks (SpecConstraint)
\* ========================================================================
FirstProperty == class_properties[1]
FirstConstraint == FirstProperty.constraints.c
Declared(typeName) == typeName \in DOMAIN DatatypeCatalog
Primitive(typeName) == DatatypeCatalog[typeName].parentType = ""
BaseType(typeName) == PrimitiveOf(typeName, DatatypeCatalog)

\* C14: resolve_datatype returns, for every datatype of the catalog, the
\* name of the datatype at the end of its parentType chain, and the type
\* name itself when the datatype has no parentType.
C14_ResolvesToEndOfChain ==
    (constraint_check.op = "resolve_datatype" /\ Declared(FirstProperty.typeName)) =>
        /\ constraint_check.raised = ""
        /\ constraint_check.value = BaseType(FirstProperty.typeName)

\* What resolve_datatype does: a datatype with no parentType is returned, any
\* other raises TypeError.
C14_ResolvesPrimitivesOnly ==
    (constraint_check.op = "resolve_datatype" /\ Declared(FirstProperty.typeName)) =>
        IF Primitive(FirstProperty.typeName)
        THEN constraint_check.raised = "" /\ constraint_check.value = FirstProperty.typeName
        ELSE constraint_check.raised = "TypeError"

HasRange(c) == c.minimum # JsonNull \/ c.maximum # JsonNull \/ c.step # JsonNull
HasString(c) == c.maxCharacters # JsonNull \/ c.pattern # JsonNull
HasTruthyRange(c) == Truthy(c.minimum) \/ Truthy(c.maximum) \/ Truthy(c.step)
HasTruthyString(c) == Truthy(c.maxCharacters) \/ Truthy(c.pattern)
ConstraintChecked ==
    /\ constraint_check.op = "check_constraint"
    /\ Declared(FirstProperty.typeName)

\* C15: check_constraint records a defect whenever the constraint carries a
\* minimum, maximum or step (any value, 0 included) and the base type is not
\* numeric, and whenever it carries a maxCharacters or pattern and the base
\* type is not NcString; it records none for a range on a numeric base type
\* or a string constraint on NcString.
C15_IllegalConstraintRecorded ==
    (ConstraintChecked /\ FirstConstraint.defaultValue = JsonNull) =>
        constraint_check.test_metadata.error
            <=> \/ /\ HasRange(FirstConstraint)
                   /\ BaseType(FirstProperty.typeName) \notin numeric_datatypes
                \/ /\ HasString(FirstConstraint)
                   /\ BaseType(FirstProperty.typeName) \notin string_datatypes

\* What check_constraint records on a datatype with no parentType: the
\* values that Python takes for true.
C15_TruthyConstraintOnPrimitiveRecorded ==
    (/\ ConstraintChecked /\ FirstConstraint.defaultValue = JsonNull
     /\ Primitive(FirstProperty.typeName)) =>
        /\ constraint_check.raised = ""
        /\ constraint_check.test_metadata.error
            <=> \/ /\ HasTruthyRange(FirstConstraint)
                   /\ FirstProperty.typeName \notin numeric_datatypes
                \/ /\ HasTruthyString(FirstConstraint)
                   /\ FirstProperty.typeName \notin string_datatypes

DefaultIsList == FirstConstraint.defaultValue.t = "list"
DefaultConforms ==
    IF DefaultIsList
    THEN \A i \in 1..Len(FirstConstraint.defaultValue.l) :
            ConformsTo(FirstConstraint.defaultValue.l[i], FirstProperty.typeName,
                       DatatypeCatalog)
    ELSE ConformsTo(FirstConstraint.defaultValue, FirstProperty.typeName, DatatypeCatalog)

\* C16: whenever the constraint has a default value (any non-null value), a
\* defect is reported if the value is a list while isSequence is false or no
\* list while isSequence is true, and otherwise the scalar or every element
\* of the list is validated against the schema of the type.
C16_DefaultValueChecked ==
    (ConstraintChecked /\ FirstConstraint.defaultValue # JsonNull) =>
        IF DefaultIsList # FirstProperty.isSequence
        THEN constraint_check.raised = "" /\ constraint_check.test_metadata.error
        ELSE constraint_check.raised = "FAIL" <=> ~DefaultConforms

\* What check_constraint does: the same for the default values that Python
\* takes for true, nothing for the others.
C16_TruthyDefaultValueChecked ==
    (ConstraintChecked /\ FirstConstraint.defaultValue # JsonNull) =>
        IF ~Truthy(FirstConstraint.defaultValue)
        THEN constraint_check.raised # "FAIL" /\ ~constraint_check.test_metadata.error
        ELSE IF DefaultIsList # FirstProperty.isSequence
        THEN constraint_check.raised = "" /\ constraint_check.test_metadata.error
        ELSE constraint_check.raised = "FAIL" <=> ~DefaultConforms

\* The properties whose constraint is illegal for their type.
IllegalProperties ==
    {class_properties[i].name : i \in {j \in 1..Len(class_properties) :
        /\ class_properties[j].constraints.t # "null"
        /\ \/ /\ HasRange(class_properties[j].constraints.c)
              /\ BaseType(class_properties[j].typeName) \notin numeric_datatypes
           \/ /\ HasString(class_properties[j].constraints.c)
              /\ BaseType(class_properties[j].typeName) \notin string_datatypes}}

SeveralChecked ==
    /\ constraint_check.op = "test_34"
    /\ constraint_check.raised = ""
    /\ Len(class_properties) >= 2

\* C17: when several properties checked by one constraint test each have an
\* illegal constraint, the failure of the test identifies every one of them.
C17_EveryDefectNamed ==
    SeveralChecked =>
        /\ constraint_check.result = "FAIL" <=> IllegalProperties # {}
        /\ Range(constraint_check.test_metadata.error_msg) = IllegalProperties

\* What the test reports: that some constraint is illegal, and the last
\* illegal property only.
C17_LastDefectNamed ==
    SeveralChecked =>
        /\ constraint_check.result = "FAIL" <=> IllegalProperties # {}
        /\ Range(constraint_check.test_metadata.error_msg) \subseteq IllegalProperties
        /\ Len(constraint_check.test_metadata.error_msg) <= 1

\* ------------------------------------------------------------------------
\* Properties of the notifications
\* ------------------------------------------------------------------------
Test32Returned == pc.at = "done"

RECURSIVE SumOfMatching(_, _, _)
SumOfMatching(list, i, oid) ==
    IF i > Len(list)
    THEN 0
    ELSE (IF list[i].oid = oid THEN list[i].matching ELSE 0) + SumOfMatching(list, i + 1, oid)

\* The user-label notifications carrying the oid that were received in the
\* capture windows of the writes to that oid.
ReceivedInOwnWindows(oid) == SumOfMatching(writes, 1, oid)

Ascending(list) == \A i, j \in 1..Len(list) : i < j => list[i] < list[j]

\* The verdict names, in ascending order, exactly the oids whose counter is
\* not 2, and is FAIL when there is one.
NamesOidsNotAtTwo ==
    /\ Ascending(verdict.named)
    /\ {verdict.named[i] : i \in 1..Len(verdict.named)} = {oid \in DOMAIN oids : oids[oid] # 2}
    /\ verdict.named # <<>> => verdict.result = "FAIL"

\* C18: test_32 returns FAIL whenever some write has zero or more than one
\* notification with its oid and the user-label property id in its own
\* capture window, or such a notification has a wrong change type, value or
\* sequence item index.
C18_EveryWriteNotifiedOnce ==
    Test32Returned =>
        ((\E w \in 1..Len(writes) : writes[w].matching # 1 \/ writes[w].mismatched)
            => verdict.result = "FAIL")

\* What test_32 does ensure: FAIL whenever the two windows of some oid hold
\* together another number than two such notifications, or one of them has a
\* wrong field.
C18_EveryOidNotifiedTwice ==
    Test32Returned =>
        ((\/ \E oid \in DOMAIN oids : ReceivedInOwnWindows(oid) # 2
          \/ \E w \in 1..Len(writes) : writes[w].mismatched)
            => verdict.result = "FAIL")

\* The run C18 fails on: two notifications in the window of the first write,
\* none in the window of the second, and PASS.
C18_UnevenWindowsPass ==
    /\ Test32Returned
    /\ verdict.result = "PASS"
    /\ \E w \in 1..Len(writes) : writes[w].matching = 0

\* C19 as stated: the counter of an oid counts every notification carrying
\* that oid and the user-label property id, whichever write it was received
\* after; FAIL names in ascending order exactly the oids whose counter is
\* not 2.
C19_CounterOfEveryNotification ==
    Test32Returned =>
        /\ \A oid \in DOMAIN oids : oids[oid] = received[oid]
        /\ NamesOidsNotAtTwo

\* C19: the counter of an oid counts the notifications carrying that oid and
\* the user-label property id that were received in the capture windows of
\* the writes to that oid, and nothing else changes it; when test_32
\* returns, FAIL names in ascending order exactly the oids whose counter is
\* not 2.
C19_CounterOfOwnWindows ==
    /\ \A oid \in DOMAIN oids : oids[oid] = ReceivedInOwnWindows(oid)
    /\ Test32Returned => NamesOidsNotAtTwo

\* A run of two objects came to its verdict: a notification carrying an oid
\* was received after the write to the other one, a notification of its own
\* was received for each write of the root block, and the other oid is
\* named.
C19_Witness ==
    /\ Test32Returned
    /\ Len(monitored) = 2
    /\ \E oid \in DOMAIN oids : received[oid] > oids[oid]
    /\ oids[ROOT_BLOCK_OID] = 2
    /\ verdict = [result |-> "FAIL", named |-> <<4>>]

\* A run of one object came to its verdict with a notification of an oid
\* that is not monitored and one of another property, and passed.
C19_WitnessUnmonitored ==
    /\ Test32Returned
    /\ Len(monitored) = 1
    /\ verdict.result = "PASS"
    /\ \E w \in 1..Len(writes) : writes[w].matching = 1 /\ writes[w].others > 0

CallsOf(name, oid) == SelectSeq(calls_made, LAMBDA c : c.call = name /\ c.oid = oid)
LabelsWritten(oid) == [i \in 1..Len(CallsOf("set_property", oid)) |-> CallsOf("set_property", oid)[i].label]
IsPrefix(list, whole) == Len(list) <= Len(whole) /\ \A i \in 1..Len(list) : list[i] = whole[i]

\* C20: the subscription is the first call and is made before any write;
\* every write follows the start_logging_notifications call of its window
\* and is followed by its stop_logging_notifications call before any other
\* call; notifications are read only when logging is stopped, right after
\* the stop; each oid is written the new label first and the label read
\* before the probe second, and both when test_32 returns.
C20_OrderOfCalls ==
    /\ \A j \in 1..Len(calls_made) :
        /\ calls_made[j].call = "update_subscritions" <=> j = 1
        /\ calls_made[j].call = "set_property" =>
            /\ j > 1
            /\ calls_made[j - 1] = [calls_made[j] EXCEPT !.call = "start_logging_notifications"]
            /\ j < Len(calls_made) =>
                calls_made[j + 1] = [calls_made[j] EXCEPT !.call = "stop_logging_notifications"]
        /\ calls_made[j].call = "get_notifications" =>
            /\ j > 1
            /\ calls_made[j - 1] = [calls_made[j] EXCEPT !.call = "stop_logging_notifications"]
    /\ pc.at = "get_notifications" => ~logging
    /\ pc.at = "stop_logging_notifications" => logging
    /\ \A oid \in DOMAIN oids :
        /\ IsPrefix(LabelsWritten(oid), <<"new_user_label", "old_user_label">>)
        /\ Test32Returned => LabelsWritten(oid) = <<"new_user_label", "old_user_label">>
        /\ Len(CallsOf("get_property", oid)) = 0 => LabelsWritten(oid) = <<>>

\* test_32 returned after writing each of two oids twice.
C20_Witness ==
    /\ Test32Returned
    /\ Len(monitored) = 2
    /\ Len(SelectSeq(calls_made, LAMBDA c : c.call = "set_property")) = 4
    /\ Len(SelectSeq(calls_made, LAMBDA c : c.call = "get_notifications")) = 4

\* ------------------------------------------------------------------------
\* Properties of the length of lists of objects (SpecDescriptor)
\* ------------------------------------------------------------------------
NamesOf(value) == {value.l[i].d["name"] : i \in 1..Len(value.l)}

\* C30: for a field whose reference value is a non-empty list of objects
\* with pairwise distinct names, validate_descriptor accepts a live list
\* only if it has as many items as the reference list; a live list that
\* repeats a name, and so is longer, is rejected.
C30_AcceptedListHasReferenceLength ==
    (/\ Validated /\ ListField
     /\ DistinctNames(reference.d["properties"])
     /\ Accepted) =>
        Len(descriptor.d["properties"].l) = Len(reference.d["properties"].l)

\* What validate_descriptor does ensure of an accepted live list: it has
\* the names of the reference list, each at least once.
C30_AcceptedListHasReferenceNames ==
    (/\ Validated /\ ListField
     /\ DistinctNames(reference.d["properties"])
     /\ Accepted) =>
        NamesOf(descriptor.d["properties"]) = NamesOf(reference.d["properties"])

\* A live list that repeats a name and is longer than the reference list
\* was accepted.
C30_LongerListAccepted ==
    /\ Validated /\ ListField /\ Accepted
    /\ DistinctNames(reference.d["properties"])
    /\ ~DistinctNames(descriptor.d["properties"])
    /\ Len(descriptor.d["properties"].l) > Len(reference.d["properties"].l)

\* ------------------------------------------------------------------------
\* Properties of the end of test_32 (SpecNotification)
\* ------------------------------------------------------------------------
Test32Ended == pc.at \in {"done", "raised"}
NumberOfCalls(name) == Len(SelectSeq(calls_made, LAMBDA c : c.call = name))

\* C29: on every way test_32 can finish, by returning a verdict or by an
\* exception raised from a property read or write, as many
\* stop_logging_notifications calls were made as
\* start_logging_notifications calls, and the capture window is closed.
C29_WindowClosedAtTheEnd ==
    Test32Ended =>
        /\ NumberOfCalls("stop_logging_notifications")
               = NumberOfCalls("start_logging_notifications")
        /\ ~logging

\* What test_32 does ensure: the window is closed when it returns a verdict.
C29_WindowClosedAtTheVerdict ==
    Test32Returned =>
        /\ NumberOfCalls("stop_logging_notifications")
               = NumberOfCalls("start_logging_notifications")
        /\ ~logging

\* test_32 ended by an exception of set_property with the window open.
C29_RaisedWithWindowOpen ==
    /\ pc.at = "raised"
    /\ logging
    /\ NumberOfCalls("start_logging_notifications")
           = NumberOfCalls("stop_logging_notifications") + 1

\* ========================================================================
\* Properties of the error tests (SpecError)
\* ========================================================================
ErrorTestEnded == error_test # NoErrorTest
ErrorProduced == sent.raised = "NMOSTestException" /\ sent.is_dict /\ sent.has_status
NotOK == ErrorProduced /\ sent.status # "OK"
AsExpected == error_test.expected_status.given => sent.status = error_test.expected_status.status

\* C22: do_error_test returns PASS only when the command produced an error
\* whose status is not OK and, when a status is expected, is that status; a
\* command that succeeds or an error carrying status OK gives FAIL; an error
\* carrying another non-OK status than the expected one gives WARNING.
C22_VerdictOfErrorTest ==
    ErrorTestEnded =>
        /\ error_test.result = "PASS" => (NotOK /\ AsExpected)
        /\ (sent.raised = "" \/ (ErrorProduced /\ sent.status = "OK"))
               => error_test.result = "FAIL"
        /\ (NotOK /\ sent.status # Zero /\ ~AsExpected) => error_test.result = "WARNING"

\* What do_error_test does ensure: PASS only for an error with a status
\* that is not OK and is the expected one when one is expected; FAIL for a
\* command that succeeds; with an expected status, FAIL for status OK and
\* WARNING for another member of NcMethodStatus.
C22_VerdictWithExpectedMember ==
    ErrorTestEnded =>
        /\ error_test.result = "PASS" => (NotOK /\ AsExpected)
        /\ sent.raised = "" => error_test.result = "FAIL"
        /\ (ErrorProduced /\ sent.status = "OK" /\ error_test.expected_status.given)
               => error_test.result = "FAIL"
        /\ (NotOK /\ sent.status \in NcMethodStatus /\ ~AsExpected)
               => error_test.result = "WARNING"

\* C23: do_error_test ends by returning PASS, FAIL or WARNING or by raising
\* NMOSTestException, whatever the command, the expected status and the
\* response of the device.
C23_VerdictOrTestException ==
    ErrorTestEnded =>
        \/ error_test.raised = "" /\ error_test.result \in {"PASS", "FAIL", "WARNING"}
        \/ error_test.raised = "NMOSTestException"

\* A protocol-error test ended with AttributeError: the device answered
\* with an error of status OK and no status was expected.
C23_AttributeErrorOfNone ==
    /\ error_test.test \in ProtocolErrorTests
    /\ ErrorProduced /\ sent.status = "OK"
    /\ error_test.raised = "AttributeError"

\* test_27 ended with ValueError: the status of the error is no member of
\* NcMethodStatus.
C23_ValueErrorOfUnknownStatus ==
    /\ error_test.test = "test_27"
    /\ sent.status = NoMember
    /\ error_test.raised = "ValueError"

\* ========================================================================
\* Properties of the socket test (SpecSocket)
\* ========================================================================
Test03Ended == socket_test.at = "done"
Deadline == socket_test.start_time + socket_test.WS_MESSAGE_TIMEOUT

PollsInTime ==
    \A i \in 1..Len(socket_test.polls) :
        /\ socket_test.polls[i].time < Deadline
        /\ i > 1 => socket_test.polls[i].time >= socket_test.polls[i - 1].time + 1

Test03Verdict ==
    /\ PollsInTime
    /\ \A i \in 1..Len(socket_test.polls) :
        ~socket_test.polls[i].open =>
            i = Len(socket_test.polls) /\ Test03Ended /\ socket_test.result = "FAIL"
    /\ Test03Ended =>
        /\ socket_test.result \in {"PASS", "FAIL"}
        /\ socket_test.result = "FAIL" =>
            /\ socket_test.polls # <<>>
            /\ ~socket_test.polls[Len(socket_test.polls)].open
        /\ socket_test.result = "PASS" =>
            /\ now >= Deadline
            /\ \A i \in 1..Len(socket_test.polls) : socket_test.polls[i].open

\* C24: test_03 polls the socket at intervals of one sleep or more, only
\* before the timeout has elapsed; the first poll that observes the socket
\* not open is the last and test_03 returns FAIL; it returns PASS only when
\* the timeout has elapsed and every poll observed the socket open; and it
\* always ends.
C24_PollsUntilTimeout == []Test03Verdict /\ <>Test03Ended

\* test_03 passed after three polls, the socket closed after the last one.
C24_Witness ==
    /\ Test03Ended
    /\ socket_test.result = "PASS"
    /\ Len(socket_test.polls) = 3
    /\ ~socket_open

\* test_03 failed at its second poll.
C24_WitnessFail ==
    /\ Test03Ended
    /\ socket_test.result = "FAIL"
    /\ Len(socket_test.polls) = 2

\* ========================================================================
\* Properties of the user label test (SpecLabel)
\* ========================================================================
Test16Completed == label_test.at = "done" /\ label_test.raised = ""

\* The label read after the first write is the new one, and the label read
\* after the second write is the one read at the start.
RoundTrip ==
    /\ Len(label_test.read) = 3
    /\ label_test.read[2] = NMOS_TESTING_TOOL
    /\ label_test.read[3] = label_test.read[1]

\* C21: a run of test_16 that completes returns PASS when the label read
\* after writing the new label is the new label and the label read after
\* writing the old label back is the old label, and FAIL otherwise; a run
\* that returns PASS leaves the device with the label read at the start.
C21_RoundTripOfUserLabel ==
    Test16Completed =>
        /\ label_test.result \in {"PASS", "FAIL"}
        /\ label_test.result = "PASS" <=> RoundTrip
        /\ label_test.result = "PASS" => user_label = label_test.read[1]

\* test_16 passed on a device that held another label than the new one.
C21_Witness ==
    /\ Test16Completed
    /\ label_test.result = "PASS"
    /\ label_test.old_user_label # NMOS_TESTING_TOOL
    /\ user_label = label_test.old_user_label

\* test_16 failed at the second check: the device kept the new label.
C21_WitnessFail ==
    /\ Test16Completed
    /\ label_test.result = "FAIL"
    /\ Len(label_test.read) = 3
    /\ label_test.detail = "Unable to set user label"

\* ========================================================================
\* Properties of the walk of a property (SpecProperty)
\* ========================================================================
PropertyWalked == property_check.op # ""
SequenceRead ==
    /\ class_property.isSequence
    /\ live.get.ok
    /\ live.get.value.t = "list"
    /\ Len(live.get.value.l) > 0
ElementsValid ==
    \A k \in 1..Len(live.get.value.l) :
        validate_property_type(live.get.value.l[k], class_property.typeName,
                               class_property.isNullable) = ""

\* GetSequenceItem at index answers another value than the element of the
\* value read, and answered every element before it.
MismatchAt(index) ==
    /\ index \in 1..Len(live.get.value.l)
    /\ live.items[index].ok
    /\ live.items[index].value # live.get.value.l[index]
    /\ \A k \in 1..(index - 1) : live.items[k].ok

\* C27: when GetSequenceItem at some index returns another value than the
\* element at that index of the value read with Get, the mismatch is
\* recorded in get_sequence_item_metadata (error flag set, a message for
\* the property), no exception is raised, the elements after it are read
\* too unless one of them fails, and test_17 returns FAIL.
C27_MismatchRecordedAndWalkContinues ==
    (/\ property_check.op = "test_17" /\ SequenceRead /\ ElementsValid
     /\ \E index \in 1..Len(live.get.value.l) : MismatchAt(index)) =>
        /\ property_check.st.get_sequence_item_metadata.error
        /\ property_check.st.get_sequence_item_metadata.error_msg # <<>>
        /\ property_check.st.raised = ""
        /\ (\A k \in 1..Len(live.get.value.l) : live.items[k].ok)
               => property_check.st.items_read = Len(live.get.value.l)
        /\ property_check.raised = ""
        /\ property_check.result = "FAIL"

\* What the code does on a mismatch: the error flag is set, the walk and
\* test_17 end with TypeError, and no message is recorded.
C27_MismatchRaisesTypeError ==
    (/\ property_check.op = "test_17" /\ SequenceRead /\ ElementsValid
     /\ \E index \in 1..Len(live.get.value.l) :
           MismatchAt(index) /\ \A k \in 1..(index - 1) : ~MismatchAt(k)) =>
        /\ property_check.st.get_sequence_item_metadata.error
        /\ property_check.st.get_sequence_item_metadata.error_msg = <<>>
        /\ property_check.raised = "TypeError"

\* test_17 ended with TypeError at the first of two elements.
C27_TypeErrorAtFirstElement ==
    /\ property_check.op = "test_17"
    /\ SequenceRead /\ ElementsValid
    /\ Len(live.get.value.l) = 2
    /\ MismatchAt(1)
    /\ property_check.st.items_read = 1
    /\ property_check.raised = "TypeError"

\* C28: for a property declared non-nullable of a member whose class is
\* advertised, a live value of null is reported as the failure
\* "Non-nullable property set to null".
C28_NullOfNonNullableReported ==
    (/\ PropertyWalked
     /\ ~class_property.isNullable
     /\ live.get.ok /\ live.get.value = JsonNull) =>
        property_check.st.raised = "FAIL"

\* What the walk does report: a null element of the value of a sequence
\* property declared non-nullable.
C28_NullElementReported ==
    (/\ PropertyWalked /\ SequenceRead
     /\ ~class_property.isNullable
     /\ \E k \in 1..Len(live.get.value.l) : live.get.value.l[k] = JsonNull) =>
        property_check.st.raised = "FAIL"

\* The walk read null for a non-nullable property and went on.
C28_NullSkipped ==
    /\ property_check.op = "check_object_properties"
    /\ ~class_property.isNullable /\ ~class_property.isSequence
    /\ live.get.ok /\ live.get.value = JsonNull
    /\ property_check.st = NoPropertyChecked

\* ========================================================================
\* Properties of the tests that rely on the walk (SpecMirror)
\* ========================================================================
WalkTests == {"test_06", "test_07", "test_08"}

\* C26: whenever the walk started by check_device_model ended with an
\* exception, a test that relies on the walk returns UNCLEAR, whether it
\* started the walk or ran later.
C26_UnclearAfterAbortedWalk ==
    (outcome.op \in WalkTests /\ self.walk = "raised" /\ self.raised = "FAIL")
        => (outcome.raised = "" /\ outcome.result = "UNCLEAR")

\* What the code does: the test that starts the walk and sees its
\* exception returns UNCLEAR.
C26_UnclearForTheTestThatWalked ==
    [][\A test \in WalkTests :
          (/\ outcome'.op = test
           /\ ~self.device_model_metadata.checked
           /\ self'.walk = "raised" /\ self'.raised = "FAIL")
              => (outcome'.raised = "" /\ outcome'.result = "UNCLEAR")]_vars

\* A test passed after a walk that ended with an exception.
C26_PassAfterAbortedWalk ==
    /\ outcome.op = "test_06"
    /\ self.walk = "raised" /\ self.raised = "FAIL"
    /\ outcome.result = "PASS"

\* ========================================================================
\* Properties of the stored device model (SpecMirror)
\* ========================================================================
ModelStored == self.device_model.kind # "None"
RootBuild ==
    [caller |-> 0, class_id |-> NCBLOCK, oid |-> ROOT_BLOCK_OID, role |-> "root"]
IsRootBuild(call) ==
    [caller |-> call.caller, class_id |-> call.class_id, oid |-> call.oid,
     role |-> call.role] = RootBuild

\* C25: once a model is stored, every step of every test leaves it as it
\* is and issues no build query; a call of query_device_model made while
\* no model is stored starts a build from the root, returns exactly when
\* the build gave a model, and stores that model.
C25_BuiltAtMostOnce ==
    [][/\ ModelStored =>
            /\ self'.device_model = self.device_model
            /\ factory_calls' = <<>>
       /\ (~ModelStored /\ outcome'.op = "query_device_model") =>
            /\ Len(factory_calls') > 0
            /\ IsRootBuild(factory_calls'[1])
            /\ factory_calls'[1].returned <=> (self'.device_model.kind # "None")
            /\ (outcome'.raised = "") <=> (self'.device_model.kind # "None")
            /\ outcome'.raised \in {"", "FAIL"}]_vars

\* query_device_model answered from the stored model of a device with
\* members.
C25_Witness ==
    /\ outcome.op = "query_device_model"
    /\ outcome.raised = ""
    /\ ModelStored
    /\ Len(self.device_model.child_objects) > 0
    /\ factory_calls = <<>>

\* query_device_model tried the build again after the build of an earlier
\* test had failed.
C25_WitnessRetry ==
    /\ outcome.op = "query_device_model"
    /\ outcome.raised = "FAIL"
    /\ ~ModelStored
    /\ self.device_model_metadata.checked
    /\ Len(factory_calls) > 0

====
